---- MODULE Spec2Model ----
(***************************************************************************)
(* A model of oapi-invoker-mcp: the invoker (src/src/tool/invoker.ts), the *)
(* translator (src/src/tool/translator.ts) and the value resolver          *)
(* (src/src/tool/value-processor.ts, src/src/tool/script-executor.ts).     *)
(*                                                                         *)
(* Strings the code takes apart (header keys, template and script values)  *)
(* are sequences of one-character strings; strings the code only passes    *)
(* along (tool names, URLs, error messages) are TLA+ strings.  A JS object *)
(* is a sequence of <<key, value>> pairs in insertion order.               *)
(***************************************************************************)
EXTENDS Integers, Sequences, FiniteSets, TLC

\* ------------------------------------------------------------------ bounds
MaxRetries == 2
MaxTimeout == 4
MaxHeaders == 3
MaxOps == 3

None == "<undefined>"

\* ----------------------------------------------------------- JS objects
\* Object.keys(o)
Keys(o) == {o[i][1] : i \in DOMAIN o}

Has(o, k) == k \in Keys(o)

\* o[k] for a key the object has
Get(o, k) == o[CHOOSE i \in DOMAIN o : o[i][1] = k][2]

\* o[k] = v: an existing key keeps its place, a new key goes last
Put(o, k, v) ==
    IF Has(o, k)
    THEN [i \in DOMAIN o |-> IF o[i][1] = k THEN <<k, v>> ELSE o[i]]
    ELSE Append(o, <<k, v>>)

\* the objects over the keys ks (each used at most once, in any order) with
\* values from vs, of at most n properties
RECURSIVE Objects(_, _, _)
Objects(ks, vs, n) ==
    IF n = 0 THEN {<<>>}
    ELSE LET shorter == Objects(ks, vs, n - 1)
         IN  shorter \cup
             UNION {{Append(o, <<k, v>>) : k \in ks \ Keys(o), v \in vs} :
                    o \in {s \in shorter : Len(s) = n - 1}}

\* ------------------------------------------------------------- characters
LowerLetters == <<"a", "b", "c", "d", "e", "f", "g", "h", "i", "j", "k", "l", "m",
                  "n", "o", "p", "q", "r", "s", "t", "u", "v", "w", "x", "y", "z">>
UpperLetters == <<"A", "B", "C", "D", "E", "F", "G", "H", "I", "J", "K", "L", "M",
                  "N", "O", "P", "Q", "R", "S", "T", "U", "V", "W", "X", "Y", "Z">>
Lowers == {LowerLetters[i] : i \in DOMAIN LowerLetters}
Uppers == {UpperLetters[i] : i \in DOMAIN UpperLetters}
Digits == {"0", "1", "2", "3", "4", "5", "6", "7", "8", "9"}

\* String.prototype.toLowerCase, one character
LowerChar(c) ==
    IF c \in Uppers
    THEN LowerLetters[CHOOSE i \in DOMAIN UpperLetters : UpperLetters[i] = c]
    ELSE c

\* String.prototype.toUpperCase, one character
UpperChar(c) ==
    IF c \in Lowers
    THEN UpperLetters[CHOOSE i \in DOMAIN LowerLetters : LowerLetters[i] = c]
    ELSE c

ToLowerCase(s) == [i \in DOMAIN s |-> LowerChar(s[i])]
ToUpperCase(s) == [i \in DOMAIN s |-> UpperChar(s[i])]

\* s.replace(/-/g, "_")
DashToUnderscore(s) == [i \in DOMAIN s |-> IF s[i] = "-" THEN "_" ELSE s[i]]

IsIdStart(c) == c \in Lowers \cup Uppers \cup {"_"}
IsIdChar(c) == IsIdStart(c) \/ c \in Digits

\* ------------------------------------------------------------------ state
VARIABLES
    processEnv,         \* process.env, read by templates and inherited by scripts
    \* processRequestValues (value-processor.ts)
    headers,            \* its arguments
    pathParams,
    inputParams,
    rvStatus,           \* "running", "resolved" or "rejected"
    hdrIdx,             \* processHeaders: index of the next header
    env,                \* processHeaders: its env object
    processedHeaders,   \* processHeaders: its result object
    processedPathParams,    \* processValue(pathParams): the object being built
    processedInputParams,   \* processValue(inputParams): the object being built
    rvBranch,           \* the two promises of Promise.all: "pending", "fulfilled", "rejected"
    envLog,             \* history: the env each resolved header was given
    \* invoke (invoker.ts)
    spec,               \* the Specification Document
    extendTool,         \* the tool being invoked
    params,             \* the caller's params object
    suppliedParams,     \* history: params as the caller passed it
    pc,                 \* where invoke is: "start", "fetching", "waiting",
                        \* "responded", "returned", "thrown"
    attempt,            \* the loop counter of the retry loop
    now,                \* the clock, in seconds
    signalAt,           \* when the AbortSignal of requestOptions fires
    attemptStart,       \* when the fetch in flight was started
    url,                \* the URL handed to fetch
    requestOptions,     \* the RequestInit handed to fetch
    response,           \* the local response
    error,              \* the local error
    thrown,             \* the message of the Error invoke threw
    fetchLog,           \* history: how each call of fetch ended
    specification,      \* openapiToAIToolSchema: its argument
    trPc,               \* where it is: "operations", "named", "returned"
    opIdx,              \* index of the next (path, method) of the two loops
    tools,              \* its local tools
    standardTools,      \* the two parts of its result
    toolToExtendInfo,
    fsSpec,             \* filterSpec: the document object it was given
    fsOriginal,         \* history: that document as it was at the call
    fsPc,               \* where it is: "operations", "returned"
    fsIdx,              \* index of the next (path, method) of the two loops
    filteredPaths,      \* its local filteredPaths
    ppConfig,           \* postProcess: the document's x-response-config
    ppOp,               \* the response keys of extendTool._rawOperation
    ppData,             \* the response data it is given
    ppOriginal,         \* history: that data as it was at the call
    processedData,      \* its local processedData
    ppResult,           \* what it returns
    ppPc,               \* where it is: "called", "processed", "returned"
    tvValue,            \* processTemplateVariables: its argument value
    tvEnv,              \* its argument env
    tvResult,           \* what it returns
    tvPc,               \* where it is: "called", "returned"
    esScript,           \* executeScript: its argument script
    esEnv,              \* its argument env
    esPc,               \* where it is: "called", "written", "closed",
                        \* "cleaned", "returned", "thrown"
    tempFileExists,     \* whether the file named by its tempFile exists
    esWritten,          \* history: fs.writeFile fulfilled
    esUnlink,           \* history: how fs.unlink ended: "none", "ok", "failed"
    esResult,           \* its local result
    esReturn,           \* the string it returns
    esThrown            \* the parts of the message of the Error it throws

rvVars == <<headers, pathParams, inputParams, rvStatus, hdrIdx, env,
            processedHeaders, processedPathParams, processedInputParams, rvBranch,
            envLog>>

invVars == <<spec, extendTool, params, suppliedParams, pc, attempt, now, signalAt, attemptStart,
             url, requestOptions, response, error, thrown, fetchLog>>

trVars == <<specification, trPc, opIdx, tools, standardTools, toolToExtendInfo>>

fsVars == <<fsSpec, fsOriginal, fsPc, fsIdx, filteredPaths>>

ppVars == <<ppConfig, ppOp, ppData, ppOriginal, processedData, ppResult, ppPc>>

tvVars == <<tvValue, tvEnv, tvResult, tvPc>>

esVars == <<esScript, esEnv, esPc, tempFileExists, esWritten, esUnlink, esResult,
            esReturn, esThrown>>

vars == <<processEnv, rvVars, invVars, trVars, fsVars, ppVars, tvVars, esVars>>

\* what the steps of one component leave alone
outsideResolve == <<invVars, trVars, fsVars, ppVars, tvVars, esVars>>
outsideInvoke == <<rvVars, trVars, fsVars, ppVars, tvVars, esVars>>
outsideTranslate == <<processEnv, rvVars, invVars, fsVars, ppVars, tvVars, esVars>>
outsideFilter == <<processEnv, rvVars, invVars, trVars, ppVars, tvVars, esVars>>
outsidePostProcess == <<processEnv, rvVars, invVars, trVars, fsVars, tvVars, esVars>>
outsideTemplate == <<processEnv, rvVars, invVars, trVars, fsVars, ppVars, esVars>>
outsideExecute == <<processEnv, rvVars, invVars, trVars, fsVars, ppVars, tvVars>>

\* the script run when no direct call of executeScript is modelled
ExecuteIdle ==
    /\ esScript = <<>>
    /\ esEnv = <<>>
    /\ esPc = "idle"
    /\ tempFileExists = FALSE
    /\ esWritten = FALSE
    /\ esUnlink = "none"
    /\ esResult = [t |-> "undefined"]
    /\ esReturn = <<>>
    /\ esThrown = <<>>

\* the template replacement when no direct call of it is modelled
TemplateIdle ==
    /\ tvValue = <<>>
    /\ tvEnv = <<>>
    /\ tvResult = <<>>
    /\ tvPc = "idle"

\* the post-processing when no call of postProcess is modelled
PostProcessIdle ==
    /\ ppConfig = None
    /\ ppOp = None
    /\ ppData = None
    /\ ppOriginal = None
    /\ processedData = None
    /\ ppResult = None
    /\ ppPc = "idle"

\* the filter when no call of filterSpec is modelled
FilterIdle ==
    /\ fsSpec = None
    /\ fsOriginal = None
    /\ fsPc = "idle"
    /\ fsIdx = 0
    /\ filteredPaths = <<>>

\* the translator when no translation is modelled
TranslateIdle ==
    /\ specification = None
    /\ trPc = "idle"
    /\ opIdx = 0
    /\ tools = <<>>
    /\ standardTools = <<>>
    /\ toolToExtendInfo = <<>>

\* the invoker when no invocation is modelled
InvokeIdle ==
    /\ spec = None
    /\ extendTool = None
    /\ params = None
    /\ suppliedParams = None
    /\ pc = "idle"
    /\ attempt = 0
    /\ now = 0
    /\ signalAt = 0
    /\ attemptStart = 0
    /\ url = None
    /\ requestOptions = None
    /\ response = None
    /\ error = None
    /\ thrown = None
    /\ fetchLog = <<>>

\* the value resolver when no resolution is modelled
ResolveIdle ==
    /\ headers = <<>>
    /\ pathParams = <<>>
    /\ inputParams = <<>>
    /\ rvStatus = "idle"
    /\ hdrIdx = 0
    /\ env = <<>>
    /\ processedHeaders = <<>>
    /\ processedPathParams = <<>>
    /\ processedInputParams = <<>>
    /\ rvBranch = [path |-> "idle", input |-> "idle"]
    /\ envLog = <<>>

\* ------------------------------------------------------ script-executor.ts
\* an env object: a function from names to strings
EmptyEnv == << >>

EnvHas(e, name) == name \in DOMAIN e

\* e[name] = value
EnvSet(e, name, value) ==
    [n \in DOMAIN e \cup {name} |-> IF n = name THEN value ELSE e[n]]

\* { ...a, ...b }
EnvMerge(a, b) ==
    [n \in DOMAIN a \cup DOMAIN b |-> IF n \in DOMAIN b THEN b[n] ELSE a[n]]

\* e[name] || "" for the undefined-or-empty test of JS
EnvOr(e, name, other) ==
    IF EnvHas(e, name) /\ e[name] # <<>> THEN e[name] ELSE other

\* the first index from j on whose character is no identifier character
RECURSIVE IdEnd(_, _)
IdEnd(s, j) ==
    IF j <= Len(s) /\ IsIdChar(s[j]) THEN IdEnd(s, j + 1) ELSE j

\* the callback of value.replace: process.env[envVar] || env[envVar] || ""
TemplateLookup(envVar, e) == EnvOr(processEnv, envVar, EnvOr(e, envVar, <<>>))

\* value.replace(/\{([A-Za-z_][A-Za-z0-9_]*)\}/g, ...) from index i on
RECURSIVE ReplaceFrom(_, _, _)
ReplaceFrom(value, e, i) ==
    IF i > Len(value) THEN <<>>
    ELSE IF value[i] = "{" /\ i + 1 <= Len(value) /\ IsIdStart(value[i + 1])
              /\ IdEnd(value, i + 2) <= Len(value)
              /\ value[IdEnd(value, i + 2)] = "}"
         THEN TemplateLookup(SubSeq(value, i + 1, IdEnd(value, i + 2) - 1), e)
                  \o ReplaceFrom(value, e, IdEnd(value, i + 2) + 1)
         ELSE <<value[i]>> \o ReplaceFrom(value, e, i + 1)

processTemplateVariables(value, e) == ReplaceFrom(value, e, 1)

\* value.trim(): the blanks at both ends removed
RECURSIVE TrimStart(_)
TrimStart(s) == IF s # <<>> /\ Head(s) = " " THEN TrimStart(Tail(s)) ELSE s

RECURSIVE TrimEnd(_)
TrimEnd(s) ==
    IF s # <<>> /\ s[Len(s)] = " " THEN TrimEnd(SubSeq(s, 1, Len(s) - 1)) ELSE s

Trim(s) == TrimEnd(TrimStart(s))

StartsWith(s, prefix) ==
    Len(s) >= Len(prefix) /\ SubSeq(s, 1, Len(prefix)) = prefix

isScript(value) == StartsWith(Trim(value), <<"#", "!">>)

\* The spawned program.  The scripts of the model print the text after the
\* shebang with every {NAME} replaced by the child's environment variable
\* NAME, and exit with status 1 when that text holds a "?".
ChildLookup(name, childEnv) == IF EnvHas(childEnv, name) THEN childEnv[name] ELSE <<>>

RECURSIVE ChildPrint(_, _, _)
ChildPrint(text, childEnv, i) ==
    IF i > Len(text) THEN <<>>
    ELSE IF text[i] = "{" /\ i + 1 <= Len(text) /\ IsIdStart(text[i + 1])
              /\ IdEnd(text, i + 2) <= Len(text)
              /\ text[IdEnd(text, i + 2)] = "}"
         THEN ChildLookup(SubSeq(text, i + 1, IdEnd(text, i + 2) - 1), childEnv)
                  \o ChildPrint(text, childEnv, IdEnd(text, i + 2) + 1)
         ELSE <<text[i]>> \o ChildPrint(text, childEnv, i + 1)

ChildRun(script, childEnv) ==
    LET text == SubSeq(script, 3, Len(script))
    IN  [code |-> IF \E i \in DOMAIN text : text[i] = "?" THEN 1 ELSE 0,
         stdout |-> ChildPrint(text, childEnv, 1)]

\* executeScript: the child gets { ...process.env, ...env }; a non-zero exit
\* status throws, otherwise the captured stdout is returned
executeScript(script, e) ==
    LET result == ChildRun(script, EnvMerge(processEnv, e))
    IN  IF result.code # 0
        THEN [ok |-> FALSE, v |-> <<>>]
        ELSE [ok |-> TRUE, v |-> result.stdout]

processStringValue(value, e) ==
    IF isScript(value)
    THEN executeScript(value, e)
    ELSE [ok |-> TRUE, v |-> processTemplateVariables(value, e)]

headerKeyToEnvVar(headerKey) == DashToUnderscore(ToLowerCase(headerKey))

\* ------------------------------------------------------ value-processor.ts
\* JS values: [t |-> "str", s |-> characters], [t |-> "num", n |-> number],
\* [t |-> "arr", a |-> elements], [t |-> "obj", o |-> properties]
Str(s) == [t |-> "str", s |-> s]
Num(n) == [t |-> "num", n |-> n]
Arr(a) == [t |-> "arr", a |-> a]
Obj(o) == [t |-> "obj", o |-> o]

\* processValue, with its two loops: every item and every property value is
\* resolved with the env the call was given; the first failure is thrown
RECURSIVE processValue(_, _), ProcessItems(_, _, _, _), ProcessEntries(_, _, _, _)
processValue(value, e) ==
    CASE value.t = "str" ->
            LET r == processStringValue(value.s, e)
            IN  [ok |-> r.ok, v |-> Str(r.v)]
      [] value.t = "arr" -> ProcessItems(value.a, e, 1, <<>>)
      [] value.t = "obj" -> ProcessEntries(value.o, e, 1, <<>>)
      [] OTHER -> [ok |-> TRUE, v |-> value]

ProcessItems(items, e, i, processedArray) ==
    IF i > Len(items) THEN [ok |-> TRUE, v |-> Arr(processedArray)]
    ELSE LET r == processValue(items[i], e)
         IN  IF r.ok THEN ProcessItems(items, e, i + 1, Append(processedArray, r.v))
             ELSE [ok |-> FALSE, v |-> Arr(processedArray)]

ProcessEntries(entries, e, i, processedObject) ==
    IF i > Len(entries) THEN [ok |-> TRUE, v |-> Obj(processedObject)]
    ELSE LET r == processValue(entries[i][2], e)
         IN  IF r.ok
             THEN ProcessEntries(entries, e, i + 1,
                                 Put(processedObject, entries[i][1], r.v))
             ELSE [ok |-> FALSE, v |-> Obj(processedObject)]

\* a processHeaders that stores the lower-cased alias only
HeaderEnvLowerOnly(e, key, result) == EnvSet(e, headerKeyToEnvVar(key), result)

\* processHeaders, lines 57-59: the two env entries a resolved header leaves
HeaderEnv(e, key, result) ==
    EnvSet(EnvSet(e, headerKeyToEnvVar(key), result), DashToUnderscore(key), result)

\* processHeaders as one call: the loop over Object.entries(headers)
RECURSIVE ProcessHeadersFrom(_, _, _, _)
ProcessHeadersFrom(hs, i, e, processed) ==
    IF i > Len(hs) THEN [ok |-> TRUE, v |-> processed]
    ELSE LET r == processStringValue(hs[i][2], e)
         IN  IF r.ok
             THEN ProcessHeadersFrom(hs, i + 1, HeaderEnv(e, hs[i][1], r.v),
                                     Put(processed, hs[i][1], r.v))
             ELSE [ok |-> FALSE, v |-> processed]

processHeaders(hs) == ProcessHeadersFrom(hs, 1, EmptyEnv, <<>>)

\* processRequestValues, lines 99-102: processValue(pathParams) and
\* processValue(inputParams) are called without an env, which defaults to {}
ParamsEnv == EmptyEnv

\* one turn of the loop of processHeaders
ResolveHeader ==
    /\ rvStatus = "running"
    /\ hdrIdx <= Len(headers)
    /\ LET key == headers[hdrIdx][1]
           r == processStringValue(headers[hdrIdx][2], env)
       IN  IF r.ok
           THEN /\ processedHeaders' = Put(processedHeaders, key, r.v)
                /\ env' = HeaderEnv(env, key, r.v)
                /\ hdrIdx' = hdrIdx + 1
                /\ envLog' = Append(envLog, env)
                /\ UNCHANGED rvStatus
           ELSE /\ rvStatus' = "rejected"
                /\ UNCHANGED <<processedHeaders, env, hdrIdx, envLog>>
    /\ UNCHANGED <<processEnv, headers, pathParams, inputParams,
                   processedPathParams, processedInputParams, rvBranch,
                   outsideResolve>>

HeadersResolved == hdrIdx = Len(headers) + 1

\* one turn of the loop of processValue(pathParams)
ResolvePathParam ==
    /\ HeadersResolved
    /\ rvBranch.path = "pending"
    /\ Len(processedPathParams) < Len(pathParams)
    /\ LET entry == pathParams[Len(processedPathParams) + 1]
           r == processValue(entry[2], ParamsEnv)
       IN  IF r.ok
           THEN /\ processedPathParams' = Put(processedPathParams, entry[1], r.v)
                /\ UNCHANGED <<rvBranch, rvStatus>>
           ELSE /\ rvBranch' = [rvBranch EXCEPT !.path = "rejected"]
                /\ rvStatus' = "rejected"
                /\ UNCHANGED processedPathParams
    /\ UNCHANGED <<processEnv, headers, pathParams, inputParams, hdrIdx, env,
                   processedHeaders, processedInputParams, envLog, outsideResolve>>

\* one turn of the loop of processValue(inputParams)
ResolveInputParam ==
    /\ HeadersResolved
    /\ rvBranch.input = "pending"
    /\ Len(processedInputParams) < Len(inputParams)
    /\ LET entry == inputParams[Len(processedInputParams) + 1]
           r == processValue(entry[2], ParamsEnv)
       IN  IF r.ok
           THEN /\ processedInputParams' = Put(processedInputParams, entry[1], r.v)
                /\ UNCHANGED <<rvBranch, rvStatus>>
           ELSE /\ rvBranch' = [rvBranch EXCEPT !.input = "rejected"]
                /\ rvStatus' = "rejected"
                /\ UNCHANGED processedInputParams
    /\ UNCHANGED <<processEnv, headers, pathParams, inputParams, hdrIdx, env,
                   processedHeaders, processedPathParams, envLog, outsideResolve>>

\* a loop of processValue ran to its end: its promise is fulfilled
PathParamsFulfilled ==
    /\ HeadersResolved
    /\ rvBranch.path = "pending"
    /\ Len(processedPathParams) = Len(pathParams)
    /\ rvBranch' = [rvBranch EXCEPT !.path = "fulfilled"]
    /\ UNCHANGED <<processEnv, headers, pathParams, inputParams, rvStatus, hdrIdx,
                   env, processedHeaders, processedPathParams,
                   processedInputParams, envLog, outsideResolve>>

InputParamsFulfilled ==
    /\ HeadersResolved
    /\ rvBranch.input = "pending"
    /\ Len(processedInputParams) = Len(inputParams)
    /\ rvBranch' = [rvBranch EXCEPT !.input = "fulfilled"]
    /\ UNCHANGED <<processEnv, headers, pathParams, inputParams, rvStatus, hdrIdx,
                   env, processedHeaders, processedPathParams,
                   processedInputParams, envLog, outsideResolve>>

\* Promise.all settles and processRequestValues returns the three objects
ReturnValues ==
    /\ rvStatus = "running"
    /\ rvBranch = [path |-> "fulfilled", input |-> "fulfilled"]
    /\ rvStatus' = "resolved"
    /\ UNCHANGED <<processEnv, headers, pathParams, inputParams, hdrIdx, env,
                   processedHeaders, processedPathParams, processedInputParams,
                   rvBranch, envLog, outsideResolve>>

\* the inputs of the model
K_xa == <<"x", "-", "a">>
K_XA == <<"X", "-", "A">>
K_b == <<"b">>
K_id == <<"i", "d">>
K_q == <<"q">>
K_k == <<"k">>
K_n == <<"n">>
K_token == <<"t", "o", "k", "e", "n">>
V_s == <<"s">>
V_t == <<"t">>
T_xa == <<"{", "x", "_", "a", "}">>
T_k == <<"{", "k", "}">>
T_A == <<"{", "A", "}">>
Script_xa == <<"#", "!", "f", "{", "x", "_", "a", "}">>
Script_fail == <<"#", "!", "?">>

HeaderKeys == {K_xa, K_XA, K_b}
HeaderValues == {V_s, T_xa, Script_xa, Script_fail}
PathParamValues == {Str(V_s), Str(T_xa), Str(Script_fail)}
InputParamValues == {Str(T_A), Str(Script_xa), Num(7),
                     Arr(<<Str(T_xa), Str(V_t)>>),
                     Obj(<<<<K_k, Str(V_t)>>, <<K_n, Str(T_xa)>>>>),
                     Obj(<<<<K_k, Str(V_t)>>, <<K_n, Str(T_k)>>>>)}
ProcessEnvs == {EmptyEnv, [n \in {<<"A">>} |-> <<"1">>]}

ResolveInit ==
    /\ processEnv \in ProcessEnvs
    /\ headers \in Objects(HeaderKeys, HeaderValues, MaxHeaders)
    /\ pathParams \in Objects({K_id}, PathParamValues, 1)
    /\ inputParams \in Objects({K_q}, InputParamValues, 1)
    /\ rvStatus = "running"
    /\ hdrIdx = 1
    /\ env = EmptyEnv
    /\ processedHeaders = <<>>
    /\ processedPathParams = <<>>
    /\ processedInputParams = <<>>
    /\ rvBranch = [path |-> "pending", input |-> "pending"]
    /\ envLog = <<>>
    /\ InvokeIdle
    /\ TranslateIdle
    /\ FilterIdle
    /\ PostProcessIdle
    /\ TemplateIdle
    /\ ExecuteIdle

ResolveNext ==
    \/ ResolveHeader
    \/ ResolvePathParam
    \/ ResolveInputParam
    \/ PathParamsFulfilled
    \/ InputParamsFulfilled
    \/ ReturnValues

SpecResolve == ResolveInit /\ [][ResolveNext]_vars

\* ------------------------------------------- claims on the value resolver
\* the two env names of a header key
Aliases(key) == {headerKeyToEnvVar(key), DashToUnderscore(key)}

\* the headers resolved before header j that left the env name a
EarlierWithAlias(j, a) == {i \in 1..(j - 1) : a \in Aliases(headers[i][1])}

Max(S) == CHOOSE x \in S : \A y \in S : y <= x

\* headers are resolved one at a time in insertion order
InInsertionOrder ==
    /\ Len(envLog) = Len(processedHeaders)
    /\ hdrIdx = Len(processedHeaders) + 1
    /\ \A i \in DOMAIN processedHeaders : processedHeaders[i][1] = headers[i][1]

\* C9 as stated: headers are resolved one at a time in insertion order, and
\* the env given to header j maps both aliases of every earlier header i < j
\* to the resolved value of header i, and holds nothing of a later header.
C9_Original ==
    /\ InInsertionOrder
    /\ \A j \in DOMAIN envLog :
          /\ \A i \in 1..(j - 1) : \A a \in Aliases(headers[i][1]) :
                EnvHas(envLog[j], a) /\ envLog[j][a] = processedHeaders[i][2]
          /\ \A a \in DOMAIN envLog[j] : EarlierWithAlias(j, a) # {}

\* C9 amended: headers are resolved one at a time in insertion order, and the
\* env given to header j holds exactly the aliases of the earlier headers,
\* each mapped to the resolved value of the latest earlier header that has
\* that alias (two keys such as X-A and x-a share the alias x_a).
C9_HeaderEnvLatestWins ==
    /\ InInsertionOrder
    /\ \A j \in DOMAIN envLog :
          /\ \A i \in 1..(j - 1) : \A a \in Aliases(headers[i][1]) :
                /\ EnvHas(envLog[j], a)
                /\ envLog[j][a] = processedHeaders[Max(EarlierWithAlias(j, a))][2]
          /\ \A a \in DOMAIN envLog[j] : EarlierWithAlias(j, a) # {}

\* three headers resolved, the first two sharing an alias with different
\* resolved values, the second one a script that read the first one's alias
C9_Witness ==
    /\ Len(envLog) = 3
    /\ headers[1][1] = K_XA
    /\ headers[2] = <<K_xa, Script_xa>>
    /\ processedHeaders[2][2] = <<"f">> \o processedHeaders[1][2]
    /\ processedHeaders[1][2] # processedHeaders[2][2]

\* C10 as stated: path and input parameters are resolved only after all
\* headers, and with the env the headers left: every resolved parameter is
\* what processValue gives under that env, so a template {x_a} in a
\* parameter is replaced by the resolved value of header x-a.
C10_Original ==
    /\ (processedPathParams # <<>> \/ processedInputParams # <<>>) => HeadersResolved
    /\ \A i \in DOMAIN processedPathParams :
          processedPathParams[i][2] = processValue(pathParams[i][2], env).v
    /\ \A i \in DOMAIN processedInputParams :
          processedInputParams[i][2] = processValue(inputParams[i][2], env).v

\* ------------------------------------------------------------- invoker.ts
Undefined == [t |-> "undefined"]

\* String(value)
RECURSIVE JsString(_), JoinStrings(_, _)
JsString(value) ==
    CASE value.t = "str" -> value.s
      [] value.t = "num" -> <<ToString(value.n)>>
      [] value.t = "arr" -> JoinStrings(value.a, 1)
      [] value.t = "obj" -> <<"[object Object]">>
      [] OTHER -> <<"undefined">>

JoinStrings(items, i) ==
    IF i > Len(items) THEN <<>>
    ELSE (IF i > 1 THEN <<",">> ELSE <<>>) \o JsString(items[i])
             \o JoinStrings(items, i + 1)

\* JSON.stringify(value), as the sequence of its characters
RECURSIVE JsonStringify(_), JsonItems(_, _), JsonMembers(_, _)
JsonStringify(value) ==
    CASE value.t = "str" -> <<"\"">> \o value.s \o <<"\"">>
      [] value.t = "num" -> <<ToString(value.n)>>
      [] value.t = "arr" -> <<"[">> \o JsonItems(value.a, 1) \o <<"]">>
      [] value.t = "obj" -> <<"{">> \o JsonMembers(value.o, 1) \o <<"}">>
      [] OTHER -> <<>>

JsonItems(items, i) ==
    IF i > Len(items) THEN <<>>
    ELSE (IF i > 1 THEN <<",">> ELSE <<>>) \o JsonStringify(items[i])
             \o JsonItems(items, i + 1)

JsonMembers(entries, i) ==
    IF i > Len(entries) THEN <<>>
    ELSE (IF i > 1 THEN <<",">> ELSE <<>>)
             \o <<"\"">> \o entries[i][1] \o <<"\"", ":">>
             \o JsonStringify(entries[i][2]) \o JsonMembers(entries, i + 1)

\* an extend that keeps the properties the target already has
RECURSIVE DefaultsFrom(_, _, _)
DefaultsFrom(object, source, i) ==
    IF i > Len(source) THEN object
    ELSE DefaultsFrom(IF Has(object, source[i][1]) THEN object
                      ELSE Put(object, source[i][1], source[i][2]),
                      source, i + 1)

extendKeepingTarget(object, source) == DefaultsFrom(object, source, 1)

\* extend(object, source) of es-toolkit/compat: every property of source is
\* assigned to object, which is changed in place and returned
RECURSIVE ExtendFrom(_, _, _)
ExtendFrom(object, source, i) ==
    IF i > Len(source) THEN object
    ELSE ExtendFrom(Put(object, source[i][1], source[i][2]), source, i + 1)

extend(object, source) == ExtendFrom(object, source, 1)

\* the index of the first "}" from j on, or Len(s) + 1
RECURSIVE BraceEnd(_, _)
BraceEnd(s, j) == IF j <= Len(s) /\ s[j] # "}" THEN BraceEnd(s, j + 1) ELSE j

\* p(template)(values): every {name} that values has is replaced by
\* String(values[name]); a placeholder without a value is left as it is
RECURSIVE FillFrom(_, _, _)
FillFrom(template, values, i) ==
    IF i > Len(template) THEN <<>>
    ELSE IF template[i] = "{" /\ BraceEnd(template, i + 1) <= Len(template)
              /\ BraceEnd(template, i + 1) > i + 1
              /\ Has(values, SubSeq(template, i + 1, BraceEnd(template, i + 1) - 1))
         THEN JsString(Get(values, SubSeq(template, i + 1, BraceEnd(template, i + 1) - 1)))
                  \o FillFrom(template, values, BraceEnd(template, i + 1) + 1)
         ELSE <<template[i]>> \o FillFrom(template, values, i + 1)

FillTemplate(template, values) == FillFrom(template, values, 1)

\* s.split(sep)
RECURSIVE SplitFrom(_, _, _, _)
SplitFrom(s, sep, i, part) ==
    IF i > Len(s) THEN <<part>>
    ELSE IF s[i] = sep THEN <<part>> \o SplitFrom(s, sep, i + 1, <<>>)
         ELSE SplitFrom(s, sep, i + 1, Append(part, s[i]))

Split(s, sep) == SplitFrom(s, sep, 1, <<>>)

\* the percent-encoding of the characters of the model that a URL escapes
\* (encodeURIComponent, and the setters of URL)
PercentEncodeChar(c) ==
    CASE c = "{" -> <<"%7B">> [] c = "}" -> <<"%7D">> [] c = " " -> <<"%20">>
      [] OTHER -> <<c>>

RECURSIVE PercentEncode(_)
PercentEncode(str) ==
    IF str = <<>> THEN <<>> ELSE PercentEncodeChar(Head(str)) \o PercentEncode(Tail(str))

\* line 48: requestConfigGlobal.baseUrl || spec.servers?.[0]?.url
BaseUrl(sp) ==
    IF sp.requestConfig.baseUrl \notin {None, ""} THEN sp.requestConfig.baseUrl
    ELSE sp.serverUrl

\* line 51: extendTool.method?.toLowerCase() || "get"
Method(tool) == IF tool.method = <<>> THEN <<"g", "e", "t">> ELSE ToLowerCase(tool.method)

IsGet(method) == method = <<"g", "e", "t">>

\* line 59: (!specificUrl && !baseUrl) || !method || !path
InvalidToolConfiguration(specificUrl, baseUrl, method, path) ==
    \/ specificUrl \in {None, ""} /\ baseUrl \in {None, ""}
    \/ method = <<>>
    \/ path = <<>>

\* lines 71-76: the loop over x-remap-path-to-header
RECURSIVE RemapFrom(_, _, _, _)
RemapFrom(pathRemaps, i, pathItems, requestHeaders) ==
    IF i > Len(pathRemaps) THEN requestHeaders
    ELSE RemapFrom(pathRemaps, i + 1,
                   IF pathItems = <<>> THEN <<>> ELSE Tail(pathItems),
                   IF pathItems # <<>> /\ Head(pathItems) # <<>>
                   THEN Put(requestHeaders, pathRemaps[i], Head(pathItems))
                   ELSE requestHeaders)

\* an invoke that appends nothing to the query string
AppendNothing(search, entries, i) == search

\* lines 82-86: url.searchParams.append(key, String(value)) for GET
RECURSIVE AppendQuery(_, _, _)
AppendQuery(search, entries, i) ==
    IF i > Len(entries) THEN search
    ELSE AppendQuery(Append(search, <<entries[i][1], JsString(entries[i][2])>>),
                     entries, i + 1)

\* ------------------------------------------ adapters/auth/tc3-hmac-sha256.ts
K_host == <<"h", "o", "s", "t">>
K_contentType == <<"c", "o", "n", "t", "e", "n", "t", "-", "t", "y", "p", "e">>
K_authorization == <<"a", "u", "t", "h", "o", "r", "i", "z", "a", "t", "i", "o", "n">>
K_Authorization == <<"A", "u", "t", "h", "o", "r", "i", "z", "a", "t", "i", "o", "n">>
K_xTcAction == <<"x", "-", "t", "c", "-", "a", "c", "t", "i", "o", "n">>
K_xTcVersion == <<"x", "-", "t", "c", "-", "v", "e", "r", "s", "i", "o", "n">>
K_xTcRegion == <<"x", "-", "t", "c", "-", "r", "e", "g", "i", "o", "n">>
K_xTcTimestamp == <<"x", "-", "t", "c", "-", "t", "i", "m", "e", "s", "t", "a", "m", "p">>
K_xTcToken == <<"x", "-", "t", "c", "-", "t", "o", "k", "e", "n">>
K_xTcService == <<"x", "-", "t", "c", "-", "s", "e", "r", "v", "i", "c", "e">>
K_XTCService == <<"X", "-", "T", "C", "-", "S", "e", "r", "v", "i", "c", "e">>

\* createHash("sha256").update(message).digest("hex"), as a term over its input
getHash(message) == <<"sha256(", ToString(message), ")">>

\* createHmac("sha256", secret).update(message).digest(encoding)
sha256(message, secret) == <<"hmac(", ToString(message), ",", ToString(secret), ")">>

\* getDate(timestamp): the UTC day of a Unix timestamp
getDate(timestamp) == <<"day", ToString(timestamp \div 86400)>>

\* lines 43-45: headersToSign.set(key.toLowerCase(), value) for every header
RECURSIVE LowerKeysFrom(_, _, _)
LowerKeysFrom(hs, i, headersToSign) ==
    IF i > Len(hs) THEN headersToSign
    ELSE LowerKeysFrom(hs, i + 1, Put(headersToSign, ToLowerCase(hs[i][1]), hs[i][2]))

\* lines 47-63: the metadata headers
PutIfAbsent(m, present, key, value) ==
    IF present /\ ~Has(m, key) THEN Put(m, key, value) ELSE m

HeadersToSign(hs, authConfig, timestamp) ==
    LET h0 == LowerKeysFrom(hs, 1, <<>>)
        h1 == PutIfAbsent(h0, authConfig.action # <<>>, K_xTcAction,
                          ToLowerCase(authConfig.action))
        h2 == PutIfAbsent(h1, authConfig.version # <<>>, K_xTcVersion, authConfig.version)
        h3 == PutIfAbsent(h2, authConfig.region # <<>>, K_xTcRegion, authConfig.region)
        h4 == Put(h3, K_xTcTimestamp, <<ToString(timestamp)>>)
    IN  IF authConfig.token # <<>> THEN Put(h4, K_xTcToken, authConfig.token) ELSE h4

\* lines 66-68: the keys content-type and host that are present, sorted
SignedHeaders(headersToSign) ==
    SelectSeq(<<K_contentType, K_host>>, LAMBDA k : Has(headersToSign, k))

RECURSIVE CanonicalHeaders(_, _, _)
CanonicalHeaders(signedHeaders, headersToSign, i) ==
    IF i > Len(signedHeaders) THEN <<>>
    ELSE signedHeaders[i] \o <<":">> \o Get(headersToSign, signedHeaders[i]) \o <<"\n">>
             \o CanonicalHeaders(signedHeaders, headersToSign, i + 1)

\* join(sep) of a sequence of strings
RECURSIVE Join(_, _, _)
Join(parts, sep, i) ==
    IF i > Len(parts) THEN <<>>
    ELSE (IF i > 1 THEN sep ELSE <<>>) \o parts[i] \o Join(parts, sep, i + 1)

\* keyA.localeCompare(keyB) < 0 on the keys of the model: letter by letter
CharRank(c) ==
    IF LowerChar(c) \in Lowers
    THEN CHOOSE i \in DOMAIN LowerLetters : LowerLetters[i] = LowerChar(c)
    ELSE 0

RECURSIVE Before(_, _)
Before(a, b) ==
    IF b = <<>> THEN FALSE
    ELSE IF a = <<>> THEN TRUE
    ELSE IF CharRank(Head(a)) # CharRank(Head(b)) THEN CharRank(Head(a)) < CharRank(Head(b))
    ELSE Before(Tail(a), Tail(b))

\* Array.prototype.sort by key: a stable insertion sort
RECURSIVE InsertByKey(_, _), SortByKey(_)
InsertByKey(sorted, entry) ==
    IF sorted = <<>> THEN <<entry>>
    ELSE IF Before(entry[1], Head(sorted)[1]) THEN <<entry>> \o sorted
    ELSE <<Head(sorted)>> \o InsertByKey(Tail(sorted), entry)

SortByKey(entries) ==
    IF entries = <<>> THEN <<>>
    ELSE InsertByKey(SortByKey(SubSeq(entries, 1, Len(entries) - 1)), entries[Len(entries)])

\* lines 81-87
CanonicalQueryString(query) ==
    LET sorted == SortByKey(query)
    IN  Join([i \in DOMAIN sorted |->
                 PercentEncode(sorted[i][1]) \o <<"=">> \o PercentEncode(sorted[i][2])],
             <<"&">>, 1)

\* lines 126-134: x-tc-action becomes X-TC-Action
FormatPart(part) ==
    IF part = <<"t", "c">> THEN <<"T", "C">>
    ELSE IF part = <<>> THEN <<>>
    ELSE <<UpperChar(Head(part))>> \o Tail(part)

FormatKey(key) ==
    LET parts == Split(key, "-")
    IN  Join([i \in DOMAIN parts |-> FormatPart(parts[i])], <<"-">>, 1)

\* lines 119-137: Authorization first, then every header of headersToSign
RECURSIVE ResultHeadersFrom(_, _, _)
ResultHeadersFrom(headersToSign, i, resultHeaders) ==
    IF i > Len(headersToSign) THEN resultHeaders
    ELSE ResultHeadersFrom(headersToSign, i + 1,
             Put(resultHeaders, FormatKey(headersToSign[i][1]), headersToSign[i][2]))

\* Reflect.deleteProperty(o, key)
DeleteProperty(o, key) == SelectSeq(o, LAMBDA entry : entry[1] # key)

generateTencentCloudSignature(method, query, hs, body, authConfig, timestamp) ==
    LET date == getDate(timestamp)
        service == IF authConfig.service # <<>> THEN authConfig.service
                   ELSE IF Has(hs, K_host) /\ Get(hs, K_host) # <<>>
                        THEN Head(Split(Get(hs, K_host), "."))
                        ELSE <<"service">>
        headersToSign == HeadersToSign(hs, authConfig, timestamp)
        signedHeaders == SignedHeaders(headersToSign)
        signedHeadersString == Join(signedHeaders, <<";">>, 1)
        canonicalRequest ==
            Join(<<[i \in DOMAIN method |-> UpperChar(method[i])], <<"/">>,
                   CanonicalQueryString(query),
                   CanonicalHeaders(signedHeaders, headersToSign, 1),
                   signedHeadersString, getHash(body)>>, <<"\n">>, 1)
        credentialScope == date \o <<"/">> \o service \o <<"/tc3_request">>
        stringToSign ==
            Join(<<<<"TC3-HMAC-SHA256">>, <<ToString(timestamp)>>, credentialScope,
                   getHash(canonicalRequest)>>, <<"\n">>, 1)
        secretDate == sha256(date, <<"TC3">> \o authConfig.secretKey)
        secretService == sha256(service, secretDate)
        secretSigning == sha256(<<"tc3_request">>, secretService)
        signature == sha256(stringToSign, secretSigning)
        authorization ==
            <<"TC3-HMAC-SHA256 Credential=">> \o authConfig.secretId \o <<"/">>
                \o credentialScope \o <<", SignedHeaders=">> \o signedHeadersString
                \o <<", Signature=">> \o signature
    IN  DeleteProperty(
            ResultHeadersFrom(headersToSign, 1, <<<<K_Authorization, authorization>>>>),
            K_XTCService)

\* ------------------------------------------------------- invoke, the steps
NoResponse == [t |-> "null", status |-> 0, message |-> ""]
NoError == [t |-> "null", status |-> 0, message |-> ""]

\* url.toString()
UrlToString(u) ==
    <<u.base>> \o u.pathname
        \o (IF u.search = <<>> THEN <<>>
            ELSE <<"?">> \o Join([i \in DOMAIN u.search |->
                                     PercentEncode(u.search[i][1]) \o <<"=">>
                                         \o PercentEncode(u.search[i][2])],
                                 <<"&">>, 1))

\* lines 103-108: the auth config after invoke has written to it
AuthConfigOf(authConfig, op, requestHeaders) ==
    LET withAction == IF op.operationId # <<>> /\ authConfig.action = <<>>
                      THEN [authConfig EXCEPT !.action = op.operationId]
                      ELSE authConfig
    IN  IF Has(requestHeaders, K_xTcService) /\ Get(requestHeaders, K_xTcService) # <<>>
        THEN [withAction EXCEPT !.service = Get(requestHeaders, K_xTcService)]
        ELSE withAction

\* lines 44-137: everything invoke does before the retry loop
PrepareRequest ==
    /\ pc = "start"
    /\ LET requestConfigGlobal == spec.requestConfig
           callerPath == IF params.pathParams = Undefined THEN <<>>
                         ELSE params.pathParams.o
           callerInput == IF params.inputParams = Undefined THEN <<>>
                          ELSE params.inputParams.o
           baseUrl == BaseUrl(spec)
           method == Method(extendTool)
           path == FillTemplate(extendTool.path, callerPath)
           op == extendTool.rawOperation
           specificUrl == op.customBaseUrl
           merged == extend(callerInput, op.sensitiveParams)
           target == IF specificUrl # None THEN specificUrl ELSE baseUrl
           pathItems == Tail(Split(path, "/"))
           remapped == IF op.remapPathToHeader = Undefined
                       THEN requestConfigGlobal.headers
                       ELSE RemapFrom(op.remapPathToHeader.a, 1, pathItems,
                                      requestConfigGlobal.headers)
           hasInput == Len(merged) > 0
           search == IF IsGet(method) /\ hasInput THEN AppendQuery(<<>>, merged, 1)
                     ELSE <<>>
           requestBody == IF ~IsGet(method) /\ hasInput THEN JsonStringify(Obj(merged))
                          ELSE <<>>
           withBody == IF ~IsGet(method) /\ hasInput
                       THEN Put(remapped, K_contentType,
                                <<"application/json">>)
                       ELSE remapped
           signs == spec.tencentCloudAuthScheme /\ requestConfigGlobal.auth # Undefined
           authConfig == IF signs
                         THEN AuthConfigOf(requestConfigGlobal.auth, op, withBody)
                         ELSE Undefined
           requestHeaders == IF signs
                             THEN generateTencentCloudSignature(method, search, withBody,
                                                                requestBody, authConfig, now)
                             ELSE withBody
           direct == [base |-> target,
                      pathname |-> IF op.remapPathToHeader = Undefined
                                   THEN PercentEncode(path) ELSE <<"/">>,
                      search |-> search]
           proxy == requestConfigGlobal.proxy
       IN  \* line 57: the caller's inputParams object is the target of extend
           /\ params' = IF params.inputParams = Undefined THEN params
                        ELSE [params EXCEPT !.inputParams = Obj(merged)]
           /\ IF InvalidToolConfiguration(specificUrl, baseUrl, method, path)
              THEN /\ thrown' = <<"Invalid tool configuration">>
                   /\ pc' = "thrown"
                   /\ UNCHANGED <<spec, url, requestOptions, signalAt>>
              ELSE IF target = ""
              THEN \* new URL("") throws
                   /\ thrown' = <<"Invalid URL">>
                   /\ pc' = "thrown"
                   /\ UNCHANGED <<spec, url, requestOptions, signalAt>>
              ELSE /\ spec' = IF signs
                              THEN [spec EXCEPT !.requestConfig.auth = authConfig]
                              ELSE spec
                   /\ url' = IF proxy = Undefined THEN direct
                             ELSE [base |-> proxy.url, pathname |-> <<"/">>,
                                   search |-> <<<<proxy.param, UrlToString(direct)>>>>]
                   /\ requestOptions' =
                          [method |-> [i \in DOMAIN method |-> UpperChar(method[i])],
                           headers |-> requestHeaders,
                           body |-> requestBody]
                   /\ signalAt' = now + requestConfigGlobal.timeout
                   /\ pc' = "loop"
                   /\ UNCHANGED thrown
    /\ UNCHANGED <<processEnv, extendTool, suppliedParams, attempt, now, attemptStart, response, error,
                   fetchLog, outsideInvoke>>

\* a retry loop that goes on after a response that is not 2xx
FetchResolvedOk(outcome) == outcome.t = "response" /\ outcome.status \in 200..299

\* lines 146-149: the await returns, and the loop breaks, exactly when the
\* promise of fetch is fulfilled, whatever the status of the response
FetchResolved(outcome) == outcome.t = "response"

\* an error message built from the first failure instead of the last
FailureMessageFirstError(toolName, err) ==
    <<"Failed to invoke tool ", toolName, ": ",
      IF fetchLog # <<>> THEN fetchLog[1].message ELSE err.message>>

\* lines 152-154
FailureMessage(toolName, err) ==
    <<"Failed to invoke tool ", toolName, ": ", err.message>>

\* a backoff that waits one second before every retry
BackoffOneSecond(n) == 1

\* line 157: 2 ** attempt * 1000 ms
BackoffSeconds(n) == 2 ^ n

Statuses == {200, 500}
NetworkErrors == {"ECONNRESET", "ENOTFOUND"}

\* how a fetch in flight may end at the present time: a response while the
\* signal has not fired, a network failure unless the signal had fired before
\* the call (fetch then rejects at once), the abort once the signal has fired
Outcomes ==
    {[t |-> "response", status |-> st, message |-> ""] : st \in
         IF now < signalAt THEN Statuses ELSE {}}
    \cup {[t |-> "error", status |-> 0, message |-> m] : m \in
              IF attemptStart < signalAt THEN NetworkErrors ELSE {}}
    \cup {[t |-> "error", status |-> 0, message |-> m] : m \in
              IF now >= signalAt THEN {"TimeoutError"} ELSE {}}

\* line 147: fetch(url.toString(), requestOptions) is called
CallFetch ==
    /\ pc = "loop"
    /\ attempt <= spec.requestConfig.retries
    /\ pc' = "fetching"
    /\ attemptStart' = now
    /\ UNCHANGED <<processEnv, spec, extendTool, params, suppliedParams, attempt, now, signalAt, url,
                   requestOptions, response, error, thrown, fetchLog, outsideInvoke>>

\* time passes while the fetch is in flight, until the signal fires
Tick ==
    /\ pc = "fetching"
    /\ now < signalAt
    /\ now' = now + 1
    /\ UNCHANGED <<processEnv, spec, extendTool, params, suppliedParams, pc, attempt, signalAt,
                   attemptStart, url, requestOptions, response, error, thrown,
                   fetchLog, outsideInvoke>>

\* lines 146-158: the promise of fetch settles
FetchSettles ==
    /\ pc = "fetching"
    /\ \E outcome \in Outcomes :
          /\ fetchLog' = Append(fetchLog, [t |-> outcome.t, status |-> outcome.status,
                                           message |-> outcome.message,
                                           start |-> attemptStart, end |-> now])
          /\ IF FetchResolved(outcome)
             THEN /\ response' = outcome
                  /\ pc' = "responded"
                  /\ UNCHANGED <<error, thrown>>
             ELSE /\ error' = outcome
                  /\ IF attempt = spec.requestConfig.retries
                     THEN /\ thrown' = FailureMessage(extendTool.name, outcome)
                          /\ pc' = "thrown"
                     ELSE /\ pc' = "waiting"
                          /\ UNCHANGED thrown
                  /\ UNCHANGED response
    /\ UNCHANGED <<processEnv, spec, extendTool, params, suppliedParams, attempt, now, signalAt,
                   attemptStart, url, requestOptions, outsideInvoke>>

\* line 157: the backoff wait is over, the loop goes on with attempt + 1
BackoffElapsed ==
    /\ pc = "waiting"
    /\ now' = now + BackoffSeconds(attempt)
    /\ attempt' = attempt + 1
    /\ pc' = "loop"
    /\ UNCHANGED <<processEnv, spec, extendTool, params, suppliedParams, signalAt, attemptStart, url,
                   requestOptions, response, error, thrown, fetchLog, outsideInvoke>>

\* lines 165-192: the response is parsed and returned
ReturnResponse ==
    /\ pc = "responded"
    /\ pc' = "returned"
    /\ UNCHANGED <<processEnv, spec, extendTool, params, suppliedParams, attempt, now, signalAt,
                   attemptStart, url, requestOptions, response, error, thrown,
                   fetchLog, outsideInvoke>>

\* the inputs of the model
M_get == <<"g", "e", "t">>
M_post == <<"p", "o", "s", "t">>
M_POST == <<"P", "O", "S", "T">>
P_t == <<"/", "t">>
P_u_id == <<"/", "u", "/", "{", "i", "d", "}">>
V_u == <<"u">>

AuthConfigs ==
    {Undefined,
     [t |-> "auth", secretId |-> <<"i">>, secretKey |-> <<"k">>, token |-> <<>>,
      service |-> <<>>, region |-> <<>>, version |-> <<>>, action |-> <<>>],
     [t |-> "auth", secretId |-> <<>>, secretKey |-> <<>>, token |-> <<>>,
      service |-> <<>>, region |-> <<>>, version |-> <<>>, action |-> <<>>]}

Proxies == {Undefined, [t |-> "proxy", url |-> "https://proxy", param |-> <<"u", "r", "l">>]}

\* baseUrl, servers[0].url, x-custom-base-url
UrlChoices ==
    {<<"https://global", None, None>>, <<None, "https://server", "https://custom">>,
     <<None, None, None>>, <<"https://global", None, "">>}

ConfigHeaders ==
    {<<>>, <<<<K_xa, V_s>>>>, <<<<K_xa, T_A>>>>, <<<<K_xa, Script_fail>>>>,
     <<<<K_authorization, V_s>>>>}

\* path template and the caller's pathParams
PathChoices ==
    {<<P_t, Undefined>>, <<P_u_id, Undefined>>, <<P_u_id, Obj(<<<<K_id, Str(V_s)>>>>)>>}

CallerInputs ==
    {Undefined, Obj(<<>>), Obj(<<<<K_token, Str(V_u)>>>>),
     Obj(<<<<K_q, Num(7)>>, <<K_token, Str(V_u)>>>>), Obj(<<<<K_q, Str(T_A)>>>>)}

SensitiveParams == {<<>>, <<<<K_token, Str(<<>>)>>>>, <<<<K_token, Str(V_s)>>>>}

InvokeStart ==
    /\ suppliedParams = params
    /\ pc = "start"
    /\ attempt = 0
    /\ now = 0
    /\ signalAt = 0
    /\ attemptStart = 0
    /\ url = [base |-> None, pathname |-> <<>>, search |-> <<>>]
    /\ requestOptions = [method |-> <<>>, headers |-> <<>>, body |-> <<>>]
    /\ response = NoResponse
    /\ error = NoError
    /\ thrown = <<>>
    /\ fetchLog = <<>>

\* invocations that differ in the request they build
InvokeInitRequests ==
    /\ \E urls \in UrlChoices, hs \in ConfigHeaders, proxy \in Proxies,
          auth \in AuthConfigs :
          spec = [requestConfig |->
                      [baseUrl |-> urls[1], headers |-> hs, timeout |-> 1,
                       retries |-> 0, proxy |-> proxy, auth |-> auth],
                  serverUrl |-> urls[2],
                  tencentCloudAuthScheme |-> auth # Undefined]
          /\ \E method \in {M_get, M_POST}, sens \in SensitiveParams,
                remap \in {Undefined, Arr(<<K_b>>)}, pathChoice \in PathChoices,
                input \in CallerInputs :
                /\ extendTool =
                       [name |-> "tool", method |-> method, path |-> pathChoice[1],
                        rawOperation |->
                            [customBaseUrl |-> urls[3], sensitiveParams |-> sens,
                             remapPathToHeader |-> remap, operationId |-> <<"o", "p">>]]
                /\ params = [pathParams |-> pathChoice[2], inputParams |-> input]

\* invocations that differ in the retry budget and the timeout
InvokeInitRetries ==
    /\ \E retries \in 0..MaxRetries, timeout \in 1..MaxTimeout :
          spec = [requestConfig |->
                      [baseUrl |-> "https://global", headers |-> <<>>,
                       timeout |-> timeout, retries |-> retries,
                       proxy |-> Undefined, auth |-> Undefined],
                  serverUrl |-> None,
                  tencentCloudAuthScheme |-> FALSE]
    /\ extendTool =
           [name |-> "tool", method |-> M_post, path |-> P_t,
            rawOperation |->
                [customBaseUrl |-> None, sensitiveParams |-> <<>>,
                 remapPathToHeader |-> Undefined, operationId |-> <<>>]]
    /\ params = [pathParams |-> Undefined, inputParams |-> Obj(<<<<K_q, Num(7)>>>>)]

InvokeInit ==
    /\ processEnv = [n \in {<<"A">>} |-> <<"1">>]
    /\ InvokeInitRequests \/ InvokeInitRetries
    /\ InvokeStart
    /\ ResolveIdle
    /\ TranslateIdle
    /\ FilterIdle
    /\ PostProcessIdle
    /\ TemplateIdle
    /\ ExecuteIdle

InvokeNext ==
    \/ PrepareRequest
    \/ CallFetch
    \/ Tick
    \/ FetchSettles
    \/ BackoffElapsed
    \/ ReturnResponse

SpecInvoke == InvokeInit /\ [][InvokeNext]_vars

\* --------------------------------------------------- claims on the invoker
RequestBuilt == pc \in {"loop", "fetching", "waiting", "responded", "returned"}

LastOf(log) == log[Len(log)]

\* C1: as soon as a call of fetch returns a response, of any status, after
\* k <= retries failed calls, that call is the last one (fetch was called
\* k + 1 times), the loop is left, and the response invoke returns is that one.
C1_ResponseEndsRetries ==
    \A i \in DOMAIN fetchLog :
        fetchLog[i].t = "response" =>
            /\ i = Len(fetchLog)
            /\ i - 1 <= spec.requestConfig.retries
            /\ \A j \in 1..(i - 1) : fetchLog[j].t = "error"
            /\ pc \in {"responded", "returned"}
            /\ response.t = "response"
            /\ response.status = fetchLog[i].status

\* two failed calls, then a 500 response, with a retry budget of 2
C1_Witness ==
    /\ pc = "returned"
    /\ spec.requestConfig.retries = 2
    /\ Len(fetchLog) = 3
    /\ fetchLog[1].t = "error" /\ fetchLog[2].t = "error"
    /\ response.status = 500

AllCallsFailed == \A i \in DOMAIN fetchLog : fetchLog[i].t = "error"

\* C2: while every call of fetch has failed, no response is returned and at
\* most retries + 1 calls were made; after retries + 1 failed calls invoke
\* has thrown one error, whose message names the tool and the last failure.
C2_ExhaustedRetries ==
    AllCallsFailed =>
        /\ pc \notin {"responded", "returned"}
        /\ response = NoResponse
        /\ Len(fetchLog) <= spec.requestConfig.retries + 1
        /\ (pc = "thrown" /\ fetchLog # <<>>) =>
               /\ Len(fetchLog) = spec.requestConfig.retries + 1
               /\ thrown = <<"Failed to invoke tool ", extendTool.name, ": ",
                             LastOf(fetchLog).message>>
        /\ Len(fetchLog) = spec.requestConfig.retries + 1 => pc = "thrown"

\* three failed calls with a budget of 2, the first and the last failing
\* differently
C2_Witness ==
    /\ pc = "thrown"
    /\ spec.requestConfig.retries = 2
    /\ Len(fetchLog) = 3
    /\ AllCallsFailed
    /\ fetchLog[1].message # fetchLog[3].message

\* C3 as stated: a call of fetch that the timeout cancels has been in flight
\* for the full configured timeout, the first call and every retry alike.
C3_Original ==
    \A i \in DOMAIN fetchLog :
        fetchLog[i].message = "TimeoutError" =>
            fetchLog[i].end - fetchLog[i].start >= spec.requestConfig.timeout

\* the orders in which the elements of a set can be listed
Orders(S) ==
    {f \in [1..Cardinality(S) -> S] : \A i, j \in DOMAIN f : f[i] = f[j] => i = j}

EndsWith(str, suffix) ==
    /\ Len(str) >= Len(suffix)
    /\ SubSeq(str, Len(str) - Len(suffix) + 1, Len(str)) = suffix

\* the URL of the target API as it is sent: the URL itself or, through a
\* proxy, the value of the proxy's parameter
TargetUrlText ==
    IF spec.requestConfig.proxy = Undefined THEN UrlToString(url)
    ELSE url.search[1][2]

SuppliedInput ==
    IF suppliedParams.inputParams = Undefined THEN <<>>
    ELSE suppliedParams.inputParams.o

Sensitive == extendTool.rawOperation.sensitiveParams

\* what the wire must carry: the literal for a sensitive key, the caller's
\* value for any other key
WireValue(k) == IF Has(Sensitive, k) THEN Get(Sensitive, k) ELSE Get(SuppliedInput, k)

WireKeys == Keys(SuppliedInput) \cup Keys(Sensitive)

QueryText(order) ==
    Join([i \in DOMAIN order |->
             PercentEncode(order[i]) \o <<"=">> \o PercentEncode(JsString(WireValue(order[i])))],
         <<"&">>, 1)

BodyText(order) ==
    JsonStringify(Obj([i \in DOMAIN order |-> <<order[i], WireValue(order[i])>>]))

HasQuery(text) == \E i \in DOMAIN text : text[i] = "?"

\* C4: the request sent carries every key of x-sensitive-params with its
\* configured literal and every other input key with the caller's value (in
\* the query string for GET, in the JSON body otherwise), each key once.
C4_SensitiveLiteralOnWire ==
    RequestBuilt =>
        IF WireKeys = {}
        THEN requestOptions.body = <<>> /\ ~HasQuery(TargetUrlText)
        ELSE \E order \in Orders(WireKeys) :
                IF IsGet(Method(extendTool))
                THEN /\ EndsWith(TargetUrlText, <<"?">> \o QueryText(order))
                     /\ requestOptions.body = <<>>
                ELSE /\ requestOptions.body = BodyText(order)
                     /\ ~HasQuery(TargetUrlText)

\* a POST sent with the caller's q and the literal of token, the caller
\* having supplied another value for token
C4_Witness ==
    /\ pc = "returned"
    /\ ~IsGet(Method(extendTool))
    /\ SuppliedInput = <<<<K_q, Num(7)>>, <<K_token, Str(V_u)>>>>
    /\ Sensitive = <<<<K_token, Str(V_s)>>>>
    /\ requestOptions.body = BodyText(<<K_q, K_token>>)

\* C8 as stated, for the configured headers of a request that is neither
\* signed nor remapped: every header handed to fetch holds the value the
\* Value Resolver gives for the configured one.
C8_Original ==
    (/\ RequestBuilt
     /\ spec.requestConfig.auth = Undefined
     /\ extendTool.rawOperation.remapPathToHeader = Undefined) =>
        LET resolved == processHeaders(spec.requestConfig.headers)
        IN  \A i \in DOMAIN resolved.v :
                /\ Has(requestOptions.headers, resolved.v[i][1])
                /\ Get(requestOptions.headers, resolved.v[i][1]) = resolved.v[i][2]

\* ------------------------------------------------------------ translator.ts
\* A placeholder name of a template is one element of the sequence, between
\* "{" and "}"; method, path and operationId are sequences of characters.
SENSITIVE_MARK == "*SENSITIVE*"

\* line 374
HttpMethods == {M_get, M_post, <<"p", "u", "t">>, <<"d", "e", "l", "e", "t", "e">>,
                <<"p", "a", "t", "c", "h">>}

\* whether a value counts as true in a condition
JsTruthy(value) ==
    CASE value.t = "str" -> value.s # <<>>
      [] value.t = "num" -> value.n # 0
      [] OTHER -> TRUE

\* path.match(/{([^}]+)}/g), each match without its braces
RECURSIVE ExtractFrom(_, _)
ExtractFrom(path, i) ==
    IF i > Len(path) THEN <<>>
    ELSE IF path[i] = "{" /\ BraceEnd(path, i + 1) <= Len(path)
              /\ BraceEnd(path, i + 1) > i + 1
         THEN <<SubSeq(path, i + 1, BraceEnd(path, i + 1) - 1)>>
                  \o ExtractFrom(path, BraceEnd(path, i + 1) + 1)
         ELSE ExtractFrom(path, i + 1)

extractPathParameters(path) == ExtractFrom(path, 1)

\* lines 77-93; an absent template and an empty one are both <<>>
formatToolName(method, path, operation, doc) ==
    IF doc.toolNameFormat = <<>>
    THEN method \o <<":", ":">> \o path
    ELSE FillTemplate(<<"{", "prefix", "}">> \o doc.toolNameFormat \o <<"{", "suffix", "}">>,
                      <<<<<<"method">>, Str(method)>>,
                        <<<<"path">>, Str(path)>>,
                        <<<<"operationId">>, Str(operation.operationId)>>,
                        <<<<"prefix">>, Str(doc.toolNamePrefix)>>,
                        <<<<"suffix">>, Str(doc.toolNameSuffix)>>>>)

\* lines 95-118
ToolDescription(method, path, operation, name) ==
    FillTemplate(<<"\nCall this tool for ", "{", "description", "}",
                   "\n- Action: call API ", "{", "name", "}",
                   "\n", "{", "tags", "}", "\n", "{", "examples", "}">>,
                 <<<<<<"examples">>,
                     Str(IF operation.examples = Undefined THEN <<>>
                         ELSE Join(operation.examples.a, <<"\n">>, 1))>>,
                   <<<<"name">>, Str(name)>>,
                   <<<<"description">>,
                     Str(IF operation.description # <<>> THEN operation.description
                         ELSE IF operation.summary # <<>> THEN operation.summary
                         ELSE ToUpperCase(method) \o <<" ">> \o path)>>,
                   <<<<"tags">>,
                     Str(IF operation.tags = Undefined THEN <<>>
                         ELSE <<"Categories: ">> \o Join(operation.tags.a, <<", ">>, 1)
                                  \o <<".">>)>>>>)

\* lines 57-146; the constant type and description of the three schema
\* objects are left out
createBasicToolSchema(method, path, operation, doc) ==
    [name |-> formatToolName(method, path, operation, doc),
     description |-> ToolDescription(method, path, operation,
                                     formatToolName(method, path, operation, doc)),
     inputSchema |->
         [properties |-> [pathParams |-> [properties |-> <<>>, required |-> <<>>],
                          inputParams |-> [properties |-> <<>>, required |-> <<>>]],
          required |-> Undefined],
     rawOperation |-> operation,
     meta |-> [method |-> method, path |-> path],
     responseSchema |-> Undefined,
     method |-> <<>>,
     path |-> <<>>]

\* lines 332-355, for responses given as the schema under application/json,
\* the one under */* and the response's own one (None where there is none)
RECURSIVE ResponseSchemasFrom(_, _)
ResponseSchemasFrom(responses, i) ==
    IF i > Len(responses) THEN <<>>
    ELSE LET r == responses[i][2]
             schema == IF r.jsonSchema # None THEN r.jsonSchema
                       ELSE IF r.anySchema # None THEN r.anySchema
                       ELSE r.schema
         IN  (IF schema # None THEN <<<<responses[i][1], schema>>>> ELSE <<>>)
                 \o ResponseSchemasFrom(responses, i + 1)

processResponseSchemas(tool, operation) ==
    IF operation.responses = Undefined THEN tool
    ELSE [tool EXCEPT !.responseSchema = Obj(ResponseSchemasFrom(operation.responses.o, 1))]

\* lines 179-182, 269-271, 314-317: group is put in inputSchema.required
\* unless it is there
RequireGroup(inputSchema, group) ==
    IF inputSchema.required = Undefined
    THEN [inputSchema EXCEPT !.required = Arr(<<group>>)]
    ELSE IF \E i \in DOMAIN inputSchema.required.a : inputSchema.required.a[i] = group
         THEN inputSchema
         ELSE [inputSchema EXCEPT !.required = Arr(Append(@.a, group))]

RECURSIVE PathParametersFrom(_, _, _)
PathParametersFrom(tool, names, i) ==
    IF i > Len(names) THEN tool
    ELSE PathParametersFrom(
             [tool EXCEPT
                 !.inputSchema =
                     RequireGroup(
                         [@ EXCEPT
                             !.properties.pathParams.properties =
                                 Put(@, names[i],
                                     [type |-> "string",
                                      description |->
                                          FillTemplate(<<"URL path parameter: ",
                                                         "{", "pathParam", "}">>,
                                                       <<<<<<"pathParam">>,
                                                           Str(names[i])>>>>)]),
                             !.properties.pathParams.required = Append(@, names[i])],
                         "pathParams")],
             names, i + 1)

\* lines 151-184
processPathParameters(tool, names) == PathParametersFrom(tool, names, 1)

\* lines 229-273
processInputParameter(tool, param, paramType, paramDescription) ==
    LET withRequired ==
            IF tool.inputSchema.required = Undefined
            THEN [tool EXCEPT !.inputSchema.required = Arr(<<>>)]
            ELSE tool
        withProperty ==
            [withRequired EXCEPT
                !.inputSchema.properties.inputParams.properties =
                    Put(@, param.name,
                        IF paramType = SENSITIVE_MARK
                        THEN [const |-> SENSITIVE_MARK, description |-> paramDescription]
                        ELSE [type |-> paramType, description |-> paramDescription])]
    IN  IF param.required
        THEN [withProperty EXCEPT
                 !.inputSchema =
                     RequireGroup(
                         [@ EXCEPT !.properties.inputParams.required =
                                       Append(@, param.name)],
                         "inputParams")]
        ELSE withProperty

\* lines 200-216: the type of a parameter; schemaType is None for a parameter
\* without schema, type is None for one without a type key
ParamType(param, sensitiveKV) ==
    IF Has(sensitiveKV, param.name) /\ JsTruthy(Get(sensitiveKV, param.name))
    THEN SENSITIVE_MARK
    ELSE IF param.schemaType # None
         THEN (IF param.schemaType = "" THEN "string" ELSE param.schemaType)
         ELSE IF param.type # None /\ param.type # "" THEN param.type
         ELSE "string"

RECURSIVE OperationParametersFrom(_, _, _)
OperationParametersFrom(tool, operation, i) ==
    IF i > Len(operation.parameters) THEN tool
    ELSE LET param == operation.parameters[i]
         IN  OperationParametersFrom(
                 IF param.in \in {"query", "body", "formData"}
                 THEN processInputParameter(tool, param,
                                            ParamType(param, operation.sensitiveParams),
                                            param.description)
                 ELSE tool,
                 operation, i + 1)

\* lines 189-224; an operation without parameters has <<>>
processOperationParameters(tool, operation) == OperationParametersFrom(tool, operation, 1)

RECURSIVE MergeProperties(_, _, _)
MergeProperties(inputParamProperties, properties, i) ==
    IF i > Len(properties) THEN inputParamProperties
    ELSE MergeProperties(Put(inputParamProperties, properties[i][1], properties[i][2]),
                         properties, i + 1)

\* lines 278-319; requestBody.schema is content["application/json"].schema
processRequestBody(tool, operation) ==
    IF operation.requestBody = Undefined THEN tool
    ELSE IF operation.requestBody.schema = Undefined THEN tool
    ELSE LET schema == operation.requestBody.schema
             merged ==
                 [tool EXCEPT
                     !.inputSchema.properties.inputParams.properties =
                         MergeProperties(@, schema.properties, 1)]
         IN  IF schema.required = Undefined THEN merged
             ELSE [merged EXCEPT
                      !.inputSchema =
                          RequireGroup(
                              [@ EXCEPT !.properties.inputParams.required =
                                            @ \o schema.required.a],
                              "inputParams")]

\* lines 380-401: the tool of one operation
ToolOf(doc, entry) ==
    LET basic == createBasicToolSchema(entry.method, entry.path, entry.operation, doc)
        withResponses == processResponseSchemas(basic, entry.operation)
        withPath == processPathParameters(withResponses, extractPathParameters(entry.path))
        withParameters == processOperationParameters(withPath, entry.operation)
        withBody == processRequestBody(withParameters, entry.operation)
    IN  [withBody EXCEPT !.method = ToUpperCase(entry.method), !.path = entry.path]

\* lines 443-458; nameCount is kept as the set of the names it counts
RECURSIVE EnsureUniqueFrom(_, _, _)
EnsureUniqueFrom(ts, i, nameCount) ==
    IF i > Len(ts) THEN <<>>
    ELSE IF ts[i].name \notin nameCount
         THEN <<ts[i]>> \o EnsureUniqueFrom(ts, i + 1, nameCount \cup {ts[i].name})
         ELSE <<[ts[i] EXCEPT !.name = @ \o <<" ", "[">>
                                          \o ToUpperCase(ts[i].meta.method) \o <<"]">>]>>
                  \o EnsureUniqueFrom(ts, i + 1, nameCount)

ensureUniqueToolNames(ts) == EnsureUniqueFrom(ts, 1, {})

\* lines 412-426
StandardTool(t) ==
    [name |-> t.name, description |-> t.description, inputSchema |-> t.inputSchema,
     method |-> t.method, path |-> t.path]

\* lines 429-432
RECURSIVE IndexFrom(_, _, _)
IndexFrom(ts, i, acc) ==
    IF i > Len(ts) THEN acc
    ELSE IndexFrom(ts, i + 1, Put(acc, ts[i].name, ts[i]))

\* lines 366-405: one (path, method) of the two loops
TranslateOperation ==
    /\ trPc = "operations"
    /\ opIdx <= Len(specification.operations)
    /\ tools' = IF specification.operations[opIdx].method \in HttpMethods
                THEN Append(tools, ToolOf(specification, specification.operations[opIdx]))
                ELSE tools
    /\ opIdx' = opIdx + 1
    /\ UNCHANGED <<specification, trPc, standardTools, toolToExtendInfo, outsideTranslate>>

\* line 409
EnsureUniqueToolNames ==
    /\ trPc = "operations"
    /\ opIdx > Len(specification.operations)
    /\ tools' = ensureUniqueToolNames(tools)
    /\ trPc' = "named"
    /\ UNCHANGED <<specification, opIdx, standardTools, toolToExtendInfo, outsideTranslate>>

\* lines 412-439
ReturnTools ==
    /\ trPc = "named"
    /\ standardTools' = [i \in DOMAIN tools |-> StandardTool(tools[i])]
    /\ toolToExtendInfo' = IndexFrom(tools, 1, <<>>)
    /\ trPc' = "returned"
    /\ UNCHANGED <<specification, opIdx, tools, outsideTranslate>>

\* the inputs of the model
BasicOperation(id) ==
    [operationId |-> id, description |-> <<>>, summary |-> <<>>, tags |-> Undefined,
     examples |-> Undefined, parameters |-> <<>>, requestBody |-> Undefined,
     responses |-> Undefined, sensitiveParams |-> <<>>]

DocumentedOperation ==
    [BasicOperation(<<>>) EXCEPT
        !.summary = <<"s">>,
        !.tags = Arr(<<<<"t">>, <<"u">>>>),
        !.examples = Arr(<<<<"e">>>>),
        !.responses =
            Obj(<<<<"200", [jsonSchema |-> "Pet", anySchema |-> None, schema |-> None]>>,
                  <<"404", [jsonSchema |-> None, anySchema |-> None, schema |-> None]>>,
                  <<"500", [jsonSchema |-> None, anySchema |-> None, schema |-> "Error"]>>>>)]

\* the keys of a path item: two methods and one key that is no method
CatalogEntries ==
    {[path |-> path, method |-> key, operation |-> operation] :
        path \in {P_t, P_u_id},
        key \in {M_get, M_post},
        operation \in {BasicOperation(<<"o", "p">>), DocumentedOperation}}
    \cup {[path |-> P_t, method |-> <<"parameters">>, operation |-> BasicOperation(<<>>)]}

\* the (path, method) pairs in the order of the two for-in loops: every pair
\* once, the methods of one path together
InLoopOrder(entries) ==
    /\ \A i, j \in DOMAIN entries :
          (entries[i].path = entries[j].path /\ entries[i].method = entries[j].method)
              => i = j
    /\ \A i, j, k \in DOMAIN entries :
          (i < j /\ j < k /\ entries[i].path = entries[k].path)
              => entries[j].path = entries[i].path

NameFormats ==
    {[format |-> <<>>, prefix |-> <<>>, suffix |-> <<>>],
     [format |-> <<"{", "operationId", "}">>, prefix |-> <<>>, suffix |-> <<>>],
     [format |-> <<"{", "operationId", "}">>, prefix |-> <<"p", "_">>, suffix |-> <<"_", "s">>],
     [format |-> <<"{", "method", "}">>, prefix |-> <<>>, suffix |-> <<>>],
     [format |-> <<"{", "method", "}", ":", ":", "{", "path", "}">>,
      prefix |-> <<>>, suffix |-> <<>>]}

Document(nameFormat, operations) ==
    [toolNameFormat |-> nameFormat.format, toolNamePrefix |-> nameFormat.prefix,
     toolNameSuffix |-> nameFormat.suffix, operations |-> operations]

\* documents of up to MaxOps plain operations, under every name format
CatalogDocuments ==
    {Document(nameFormat, operations) :
        nameFormat \in NameFormats,
        operations \in {entries \in UNION {[1..n -> CatalogEntries] : n \in 0..MaxOps} :
                           InLoopOrder(entries)}}

ParameterShapes ==
    {[name |-> name, in |-> where, schemaType |-> typing[1], type |-> typing[2],
      required |-> required, description |-> <<"d">>] :
        name \in {K_token, K_q},
        where \in {"query", "path"},
        typing \in {<<"integer", None>>, <<None, "integer">>, <<None, None>>},
        required \in BOOLEAN}

ParameterLists ==
    {<<>>} \cup {<<a>> : a \in ParameterShapes}
           \cup {<<a, b>> : a \in ParameterShapes, b \in ParameterShapes}

RequestBodies ==
    {Undefined,
     [t |-> "body", schema |-> Undefined],
     [t |-> "body",
      schema |-> [properties |-> <<<<K_token, [type |-> "string"]>>>>,
                  required |-> Undefined]],
     [t |-> "body",
      schema |-> [properties |-> <<<<K_b, [type |-> "string"]>>>>,
                  required |-> Arr(<<K_b>>)]]}

\* documents of one operation with parameters, a request body and
\* x-sensitive-params, under the default name format
SchemaDocuments ==
    {Document([format |-> <<>>, prefix |-> <<>>, suffix |-> <<>>],
              <<[path |-> path, method |-> M_post,
                 operation |-> [BasicOperation(<<>>) EXCEPT
                                   !.parameters = parameters,
                                   !.requestBody = requestBody,
                                   !.sensitiveParams = sensitiveParams]]>>) :
        path \in {P_t, P_u_id},
        parameters \in ParameterLists,
        requestBody \in RequestBodies,
        sensitiveParams \in SensitiveParams}

P_a_id == <<"/", "{", "a", "}", "/", "{", "i", "d", "}">>
P_id_id == <<"/", "u", "/", "{", "i", "d", "}", "/", "{", "i", "d", "}">>

\* documents of one plain operation under a path template of two placeholders
TemplateDocuments ==
    {Document([format |-> <<>>, prefix |-> <<>>, suffix |-> <<>>],
              <<[path |-> path, method |-> M_get, operation |-> BasicOperation(<<>>)]>>) :
        path \in {P_a_id, P_id_id}}

TranslateInit ==
    /\ processEnv = EmptyEnv
    /\ specification \in CatalogDocuments \cup SchemaDocuments \cup TemplateDocuments
    /\ trPc = "operations"
    /\ opIdx = 1
    /\ tools = <<>>
    /\ standardTools = <<>>
    /\ toolToExtendInfo = <<>>
    /\ ResolveIdle
    /\ InvokeIdle
    /\ FilterIdle
    /\ PostProcessIdle
    /\ TemplateIdle
    /\ ExecuteIdle

TranslateNext ==
    \/ TranslateOperation
    \/ EnsureUniqueToolNames
    \/ ReturnTools

SpecTranslate == TranslateInit /\ [][TranslateNext]_vars

\* ------------------------------------------------ claims on the translator
InputProperties(tool) == tool.inputSchema.properties.inputParams.properties

\* C5 as stated: in every tool, a property of inputParams whose name is a key
\* of the operation's x-sensitive-params is the constant sentinel, with no
\* type or shape, whatever the literal and wherever the property came from.
C5_Original ==
    \A i \in DOMAIN tools :
        \A k \in Keys(tools[i].rawOperation.sensitiveParams) :
            Has(InputProperties(tools[i]), k) =>
                /\ DOMAIN Get(InputProperties(tools[i]), k) = {"const", "description"}
                /\ Get(InputProperties(tools[i]), k).const = SENSITIVE_MARK

\* the literals an override map may hold
SensitiveLiterals == {Str(<<>>), Str(V_s), Str(V_t)}

\* the maps with the keys of m, in the same order, and any literals
SameKeyMaps(m) ==
    {[i \in DOMAIN m |-> <<m[i][1], literals[i]>>] :
        literals \in [DOMAIN m -> SensitiveLiterals]}

\* the documents that differ from doc in literals of x-sensitive-params only
SensitiveVariants(doc) ==
    {[doc EXCEPT !.operations =
          [i \in DOMAIN doc.operations |->
              [doc.operations[i] EXCEPT !.operation.sensitiveParams = maps[i]]]] :
        maps \in {choice \in [DOMAIN doc.operations ->
                                 UNION {SameKeyMaps(doc.operations[i].operation.sensitiveParams) :
                                           i \in DOMAIN doc.operations}] :
                     \A i \in DOMAIN doc.operations :
                         choice[i] \in SameKeyMaps(doc.operations[i].operation.sensitiveParams)}}

\* openapiToAIToolSchema(doc).standardTools, as one call
RECURSIVE ToolsFrom(_, _)
ToolsFrom(doc, i) ==
    IF i > Len(doc.operations) THEN <<>>
    ELSE (IF doc.operations[i].method \in HttpMethods
          THEN <<ToolOf(doc, doc.operations[i])>> ELSE <<>>) \o ToolsFrom(doc, i + 1)

StandardToolsOf(doc) ==
    LET named == ensureUniqueToolNames(ToolsFrom(doc, 1))
    IN  [i \in DOMAIN named |-> StandardTool(named[i])]

\* C6 as stated: the standardTools returned for a document are the ones
\* returned for every document that differs from it only in the literals
\* stored in x-sensitive-params.
C6_Original ==
    trPc = "returned" =>
        \A other \in SensitiveVariants(specification) :
            StandardToolsOf(other) = standardTools

\* C7 as stated: the names of the returned tools are pairwise distinct, the
\* index has one entry per tool, and the entry under a tool's name has that
\* tool's method and path.
C7_Original ==
    trPc = "returned" =>
        /\ \A i, j \in DOMAIN standardTools :
              standardTools[i].name = standardTools[j].name => i = j
        /\ Len(toolToExtendInfo) = Len(standardTools)
        /\ \A i \in DOMAIN standardTools :
              /\ Has(toolToExtendInfo, standardTools[i].name)
              /\ Get(toolToExtendInfo, standardTools[i].name).method = standardTools[i].method
              /\ Get(toolToExtendInfo, standardTools[i].name).path = standardTools[i].path

\* ------------------------------------------- claims on failing script values
\* C11 as stated: when a script among the values exits with a non-zero
\* status the resolution is rejected, no header after the failing one is
\* resolved, and an invocation configured with such a value calls fetch not
\* once.
C11_Original ==
    /\ rvStatus = "resolved" =>
          /\ processHeaders(headers).ok
          /\ processValue(Obj(pathParams), ParamsEnv).ok
          /\ processValue(Obj(inputParams), ParamsEnv).ok
    /\ ~processHeaders(headers).ok =>
          Len(processedHeaders) <= Len(processHeaders(headers).v)
    /\ (pc # "idle" /\ ~processHeaders(spec.requestConfig.headers).ok) =>
          /\ fetchLog = <<>>
          /\ pc \in {"start", "thrown"}

\* ------------------------------------------------- claims on the encoding
Contains(text, part) ==
    \E i \in 0..(Len(text) - Len(part)) : SubSeq(text, i + 1, i + Len(part)) = part

\* the content-type header handed to fetch, under the name invoke gives it or
\* the name the signature adapter turns that into
ContentTypeIsJson ==
    \E key \in {K_contentType, FormatKey(K_contentType)} :
        /\ Has(requestOptions.headers, key)
        /\ Get(requestOptions.headers, key) = <<"application/json">>

Present(u) == u \notin {None, ""}

\* the first URL present of x-custom-base-url, x-request-config.baseUrl and
\* servers[0].url, or None
FirstPresentUrl ==
    IF Present(extendTool.rawOperation.customBaseUrl)
    THEN extendTool.rawOperation.customBaseUrl
    ELSE IF Present(spec.requestConfig.baseUrl) THEN spec.requestConfig.baseUrl
    ELSE IF Present(spec.serverUrl) THEN spec.serverUrl
    ELSE None

\* C13 as stated: once invoke is past its preparation, either one of the
\* three URLs is present and the request goes to the first present one, or
\* none is and invoke has thrown the configuration error without a call of
\* fetch.
C13_Original ==
    pc \notin {"idle", "start"} =>
        IF FirstPresentUrl = None
        THEN /\ pc = "thrown"
             /\ thrown = <<"Invalid tool configuration">>
             /\ fetchLog = <<>>
        ELSE /\ thrown # <<"Invalid URL">>
             /\ RequestBuilt => TargetUrlText[1] = FirstPresentUrl

\* ===================================================== the specification filter
\* parser.ts, filterSpec.  A document is [filterRules, operations]: its
\* x-filter-rules (Undefined or an array of rules) and its paths, as the
\* sequence of the (path, key) pairs of its path items in the order of the
\* two for-in loops.  A rule is [pathPattern, methodPattern,
\* operationIdPattern, tags, exclude]; an absent pattern is <<>>, absent tags
\* are Undefined.

\* RegExp(pattern).test(str) for the patterns of the model: literal
\* characters, with an optional "^" in front and an optional "$" behind
AnchoredStart(pattern) == pattern # <<>> /\ Head(pattern) = "^"

AnchoredEnd(pattern) == pattern # <<>> /\ pattern[Len(pattern)] = "$"

Literal(pattern) ==
    SubSeq(pattern, IF AnchoredStart(pattern) THEN 2 ELSE 1,
                    IF AnchoredEnd(pattern) THEN Len(pattern) - 1 ELSE Len(pattern))

RegExpTest(pattern, str) ==
    IF AnchoredStart(pattern) /\ AnchoredEnd(pattern) THEN str = Literal(pattern)
    ELSE IF AnchoredStart(pattern) THEN StartsWith(str, Literal(pattern))
    ELSE IF AnchoredEnd(pattern) THEN EndsWith(str, Literal(pattern))
    ELSE \E i \in 0..(Len(str) - Len(pattern)) :
            SubSeq(str, i + 1, i + Len(pattern)) = pattern

\* lines 256-284: the value of matches after the four tests of one rule
RuleMatches(rule, path, method, operation) ==
    /\ ~(rule.pathPattern # <<>> /\ ~RegExpTest(rule.pathPattern, path))
    /\ ~(rule.methodPattern # <<>> /\ ~RegExpTest(rule.methodPattern, method))
    /\ ~(/\ rule.operationIdPattern # <<>>
         /\ operation.operationId # <<>>
         /\ ~RegExpTest(rule.operationIdPattern, operation.operationId))
    /\ ~(/\ rule.tags # Undefined
         /\ operation.tags # Undefined
         /\ ~\E i \in DOMAIN rule.tags.a :
                \E j \in DOMAIN operation.tags.a : operation.tags.a[j] = rule.tags.a[i])

\* the mutant: no break, the last matching rule decides
IncludeByLastMatch(filterRules, i, entry, include) ==
    LET matching == {k \in i..Len(filterRules) :
                        RuleMatches(filterRules[k], entry.path, entry.method, entry.operation)}
    IN  IF matching = {} THEN include
        ELSE ~filterRules[CHOOSE k \in matching : \A l \in matching : l <= k].exclude

\* lines 253-290: the rule loop from rule i on, include being false so far
RECURSIVE IncludeFrom(_, _, _, _)
IncludeFrom(filterRules, i, entry, include) ==
    IF i > Len(filterRules) THEN include
    ELSE IF RuleMatches(filterRules[i], entry.path, entry.method, entry.operation)
         THEN ~filterRules[i].exclude
         ELSE IncludeFrom(filterRules, i + 1, entry, include)

\* the mutant: only an absent x-filter-rules counts as no rules
NoFilterRulesAbsentOnly(document) == document.filterRules = Undefined

\* lines 235-237: no rules to apply
NoFilterRules(document) ==
    \/ document.filterRules = Undefined
    \/ Len(document.filterRules.a) = 0

\* lines 233-237: filterSpec is called and, without rules, returns its
\* argument at once
FilterStart ==
    /\ fsPc = "called"
    /\ fsPc' = IF NoFilterRules(fsSpec) THEN "returned" ELSE "operations"
    /\ fsIdx' = 1
    /\ UNCHANGED <<fsSpec, fsOriginal, filteredPaths, outsideFilter>>

\* lines 246-296: one pass of the inner loop; a key that is none of the five
\* methods is left out, an operation is taken over when include is true
FilterOperation ==
    /\ fsPc = "operations"
    /\ fsIdx <= Len(fsSpec.operations)
    /\ LET entry == fsSpec.operations[fsIdx]
       IN  filteredPaths' =
               IF /\ entry.method \in HttpMethods
                  /\ IncludeFrom(fsSpec.filterRules.a, 1, entry, FALSE)
               THEN Append(filteredPaths, entry)
               ELSE filteredPaths
    /\ fsIdx' = fsIdx + 1
    /\ UNCHANGED <<fsSpec, fsOriginal, fsPc, outsideFilter>>

\* lines 303-305: spec.paths = filteredPaths; return spec
FilterReturn ==
    /\ fsPc = "operations"
    /\ fsIdx > Len(fsSpec.operations)
    /\ fsSpec' = [fsSpec EXCEPT !.operations = filteredPaths]
    /\ fsPc' = "returned"
    /\ UNCHANGED <<fsOriginal, fsIdx, filteredPaths, outsideFilter>>

\* the inputs of the model
MaxRules == 2

O_op == BasicOperation(<<"o", "p">>)

FilterEntries ==
    <<[path |-> P_t, method |-> M_get, operation |-> O_op],
      [path |-> P_t, method |-> M_post, operation |-> DocumentedOperation],
      [path |-> P_t, method |-> <<"parameters">>, operation |-> BasicOperation(<<>>)],
      [path |-> P_u_id, method |-> M_get, operation |-> DocumentedOperation],
      [path |-> P_u_id, method |-> M_post, operation |-> O_op]>>

\* the sequence of the elements of entries at the indices in chosen
RECURSIVE Selected(_, _, _)
Selected(entries, chosen, i) ==
    IF i > Len(entries) THEN <<>>
    ELSE (IF i \in chosen THEN <<entries[i]>> ELSE <<>>) \o Selected(entries, chosen, i + 1)

FilterPaths ==
    {Selected(FilterEntries, chosen, 1) :
        chosen \in {c \in SUBSET DOMAIN FilterEntries : Cardinality(c) <= MaxOps}}

Rule(pathPattern, methodPattern, operationIdPattern, tags) ==
    [pathPattern |-> pathPattern, methodPattern |-> methodPattern,
     operationIdPattern |-> operationIdPattern, tags |-> tags, exclude |-> FALSE]

FilterRules ==
    {[rule EXCEPT !.exclude = exclude] :
        rule \in {Rule(<<>>, <<>>, <<>>, Undefined),
                  Rule(<<"^", "/", "t">>, <<>>, <<>>, Undefined),
                  Rule(<<>>, <<"p", "o", "s", "t", "$">>, <<>>, Undefined),
                  Rule(<<>>, <<>>, <<"^", "o", "p", "$">>, Undefined),
                  Rule(<<"/", "u", "/">>, <<>>, <<>>, Arr(<<<<"v">>, <<"u">>>>))},
        exclude \in BOOLEAN}

FilterDocuments ==
    {[filterRules |-> filterRules, operations |-> operations] :
        filterRules \in {Undefined}
            \cup {Arr(rules) : rules \in UNION {[1..n -> FilterRules] : n \in 0..MaxRules}},
        operations \in FilterPaths}

FilterInit ==
    /\ fsSpec \in FilterDocuments
    /\ fsOriginal = fsSpec
    /\ fsPc = "called"
    /\ fsIdx = 0
    /\ filteredPaths = <<>>
    /\ processEnv = EmptyEnv
    /\ ResolveIdle
    /\ InvokeIdle
    /\ TranslateIdle
    /\ PostProcessIdle
    /\ TemplateIdle
    /\ ExecuteIdle

FilterNext ==
    \/ FilterStart
    \/ FilterOperation
    \/ FilterReturn

SpecFilter == FilterInit /\ [][FilterNext]_vars

\* ------------------------------------------------ claims on the rule order
\* the (path, method) pairs of a path map that are operations
OperationsOf(operations) ==
    {operations[i] : i \in {j \in DOMAIN operations : operations[j].method \in HttpMethods}}

\* the rules whose predicate matches an operation
MatchingRules(entry) ==
    {k \in DOMAIN fsOriginal.filterRules.a :
        RuleMatches(fsOriginal.filterRules.a[k], entry.path, entry.method, entry.operation)}

\* C14: when filterSpec has returned for a document with a non-empty
\* x-filter-rules, an operation of the document is in the result exactly
\* when some rule matches it and the first rule in declaration order that
\* matches it is not flagged exclude; the rules after that one and the
\* other operations of the document have no part in it.
C14_FirstMatchDecides ==
    (fsPc = "returned" /\ ~NoFilterRules(fsOriginal)) =>
        \A entry \in OperationsOf(fsOriginal.operations) :
            (entry \in OperationsOf(fsSpec.operations))
                <=> \E k \in MatchingRules(entry) :
                        /\ \A l \in MatchingRules(entry) : k <= l
                        /\ ~fsOriginal.filterRules.a[k].exclude

\* an operation matched by two rules with opposite flags, kept by the first,
\* beside an operation that no rule matches and that is removed
C14_Witness ==
    /\ fsPc = "returned"
    /\ ~NoFilterRules(fsOriginal)
    /\ \E entry \in OperationsOf(fsSpec.operations) :
          /\ Cardinality(MatchingRules(entry)) = 2
          /\ ~fsOriginal.filterRules.a[1].exclude
          /\ fsOriginal.filterRules.a[2].exclude
    /\ \E entry \in OperationsOf(fsOriginal.operations) :
          /\ MatchingRules(entry) = {}
          /\ entry \notin OperationsOf(fsSpec.operations)

\* -------------------------------------------- claims on the absence of rules
\* C15: when filterSpec has returned for a document whose x-filter-rules is
\* absent or an empty list, what it returned is the document it was given,
\* with every path, every key of every path item and every operation as
\* they were.
C15_NoRulesIdentity ==
    (/\ fsPc = "returned"
     /\ \/ fsOriginal.filterRules = Undefined
        \/ fsOriginal.filterRules.a = <<>>) =>
        /\ fsSpec = fsOriginal
        /\ filteredPaths = <<>>

\* an empty list of rules and a path item with two operations and a key
\* that is no method, all returned
C15_Witness ==
    /\ fsPc = "returned"
    /\ fsOriginal.filterRules # Undefined
    /\ fsOriginal.filterRules.a = <<>>
    /\ Len(fsSpec.operations) = 3
    /\ \E i \in DOMAIN fsSpec.operations : fsSpec.operations[i].method \notin HttpMethods

\* ================================================== response post-processing
\* invoker.ts, transformItem, postProcess and truncateData.  Response data is
\* a JS value; a dot-path is the sequence of its characters.  The lodash
\* functions are modelled for paths whose segments are property names.

\* SENSITIVE_MARK as the characters of a response value
SensitiveMarkValue == Str(<<"*", "S", "E", "N", "S", "I", "T", "I", "V", "E", "*">>)

\* _.isObject(value) && !_.isNull(value)
IsObject(value) == value.t \in {"obj", "arr"}

\* _.has(value, segment) for one segment
HasOwn(value, segment) == value.t = "obj" /\ Has(value.o, segment)

\* _.get(value, segments from i on): undefined where the path ends early
RECURSIVE GetPath(_, _, _)
GetPath(value, segments, i) ==
    IF i > Len(segments) THEN value
    ELSE IF HasOwn(value, segments[i])
         THEN GetPath(Get(value.o, segments[i]), segments, i + 1)
         ELSE Undefined

\* _.has(value, segments from i on): every segment is an own property
RECURSIVE HasPath(_, _, _)
HasPath(value, segments, i) ==
    IF i > Len(segments) THEN TRUE
    ELSE /\ HasOwn(value, segments[i])
         /\ HasPath(Get(value.o, segments[i]), segments, i + 1)

\* _.set(value, segments from i on, newValue): a segment that holds no
\* object gets a new empty one
RECURSIVE SetPath(_, _, _, _)
SetPath(value, segments, i, newValue) ==
    IF i = Len(segments) THEN Obj(Put(value.o, segments[i], newValue))
    ELSE LET objValue == IF HasOwn(value, segments[i])
                         THEN Get(value.o, segments[i]) ELSE Undefined
             nested == IF objValue.t = "obj" THEN objValue ELSE Obj(<<>>)
         IN  Obj(Put(value.o, segments[i], SetPath(nested, segments, i + 1, newValue)))

\* lines 256-277: the walk to the parent of the last segment, and the unset
\* of that segment where the parent is an object that has it
RECURSIVE UnsetPath(_, _, _)
UnsetPath(current, segments, i) ==
    IF i = Len(segments)
    THEN IF HasOwn(current, segments[i])
         THEN Obj(DeleteProperty(current.o, segments[i]))
         ELSE current
    ELSE IF HasOwn(current, segments[i])
         THEN Obj(Put(current.o, segments[i],
                      UnsetPath(Get(current.o, segments[i]), segments, i + 1)))
         ELSE current

\* lines 216-233: with include keys a new object of the values found at
\* them, each set as the very value of the item; without, a deep clone
RECURSIVE IncludeFromKeys(_, _, _, _)
IncludeFromKeys(originalItem, includeKeys, k, acc) ==
    IF k > Len(includeKeys) THEN acc
    ELSE LET segments == Split(includeKeys[k], ".")
             value == GetPath(originalItem, segments, 1)
         IN  IncludeFromKeys(originalItem, includeKeys, k + 1,
                             IF value # Undefined
                             THEN SetPath(acc, segments, 1, value)
                             ELSE acc)

createInitialItem(originalItem, includeKeys) ==
    IF Len(includeKeys) > 0
    THEN IncludeFromKeys(originalItem, includeKeys, 1, Obj(<<>>))
    ELSE originalItem

\* whether the object that holds the last segment of a path in the processed
\* item is an object of the original item: it lies at or below a value that
\* createInitialItem set by reference
SharedWithOriginal(originalItem, includeKeys, segments) ==
    \E k \in DOMAIN includeKeys :
        LET included == Split(includeKeys[k], ".")
        IN  /\ Len(included) < Len(segments)
            /\ SubSeq(segments, 1, Len(included)) = included
            /\ IsObject(GetPath(originalItem, included, 1))

\* lines 242-280, on the pair of the processed item and the original one
RECURSIVE applyExclusions(_, _, _, _)
applyExclusions(both, includeKeys, excludeKeys, k) ==
    IF k > Len(excludeKeys) \/ ~IsObject(both.processed) THEN both
    ELSE LET segments == Split(excludeKeys[k], ".")
         IN  applyExclusions(
                 [processed |-> UnsetPath(both.processed, segments, 1),
                  original |-> IF SharedWithOriginal(both.original, includeKeys, segments)
                               THEN UnsetPath(both.original, segments, 1)
                               ELSE both.original],
                 includeKeys, excludeKeys, k + 1)

\* lines 303-306: the mark is set where the path exists
SetMark(value, segments) ==
    IF HasPath(value, segments, 1) THEN SetPath(value, segments, 1, SensitiveMarkValue)
    ELSE value

\* lines 289-311, on the same pair
RECURSIVE applySensitization(_, _, _, _)
applySensitization(both, includeKeys, sensitiveKeys, k) ==
    IF k > Len(sensitiveKeys) \/ ~IsObject(both.processed) THEN both
    ELSE LET pathArray == Split(sensitiveKeys[k], ".")
         IN  applySensitization(
                 [processed |-> SetMark(both.processed, pathArray),
                  original |-> IF SharedWithOriginal(both.original, includeKeys, pathArray)
                               THEN SetMark(both.original, pathArray)
                               ELSE both.original],
                 includeKeys, sensitiveKeys, k + 1)

\* the mutant: the exclusions are left out
transformItemNoExclusions(item, includeKeys, excludeKeys, sensitiveKeys) ==
    IF ~IsObject(item) THEN [processed |-> item, original |-> item]
    ELSE applySensitization(
             [processed |-> createInitialItem(item, includeKeys), original |-> item],
             includeKeys, sensitiveKeys, 1)

\* lines 198-315: flow(createInitialItem, applyExclusions, applySensitization)
transformItem(item, includeKeys, excludeKeys, sensitiveKeys) ==
    IF ~IsObject(item) THEN [processed |-> item, original |-> item]
    ELSE applySensitization(
             applyExclusions(
                 [processed |-> createInitialItem(item, includeKeys), original |-> item],
                 includeKeys, excludeKeys, 1),
             includeKeys, sensitiveKeys, 1)

\* JSON.stringify(value, null, 2), as the sequence of its characters
RECURSIVE Spaces(_)
Spaces(n) == IF n = 0 THEN <<>> ELSE <<" ">> \o Spaces(n - 1)

RECURSIVE JsonPretty(_, _), PrettyItems(_, _, _), PrettyMembers(_, _, _)
JsonPretty(value, indent) ==
    CASE value.t = "str" -> <<"\"">> \o value.s \o <<"\"">>
      [] value.t = "num" -> <<ToString(value.n)>>
      [] value.t = "arr" ->
            IF value.a = <<>> THEN <<"[", "]">>
            ELSE <<"[", "\n">> \o PrettyItems(value.a, 1, indent + 2)
                     \o <<"\n">> \o Spaces(indent) \o <<"]">>
      [] value.t = "obj" ->
            IF value.o = <<>> THEN <<"{", "}">>
            ELSE <<"{", "\n">> \o PrettyMembers(value.o, 1, indent + 2)
                     \o <<"\n">> \o Spaces(indent) \o <<"}">>
      [] OTHER -> <<>>

PrettyItems(items, i, indent) ==
    IF i > Len(items) THEN <<>>
    ELSE (IF i > 1 THEN <<",", "\n">> ELSE <<>>) \o Spaces(indent)
             \o JsonPretty(items[i], indent) \o PrettyItems(items, i + 1, indent)

PrettyMembers(entries, i, indent) ==
    IF i > Len(entries) THEN <<>>
    ELSE (IF i > 1 THEN <<",", "\n">> ELSE <<>>) \o Spaces(indent)
             \o <<"\"">> \o entries[i][1] \o <<"\"", ":", " ">>
             \o JsonPretty(entries[i][2], indent) \o PrettyMembers(entries, i + 1, indent)

\* lines 332-343: a || b || []
FirstList(a, b) == IF a # Undefined THEN a.a ELSE IF b # Undefined THEN b.a ELSE <<>>

includeResponseKeys == FirstList(ppOp.includeResponseKeys, ppConfig.includeResponseKeys)

excludeResponseKeys == FirstList(ppOp.excludeResponseKeys, ppConfig.excludeResponseKeys)

sensitiveResponseFields ==
    FirstList(ppOp.sensitiveResponseFields, ppConfig.sensitiveResponseFields)

\* lines 355-367: every item of itemsToProcess from i on is transformed
RECURSIVE MapItems(_, _, _)
MapItems(itemsToProcess, i, both) ==
    IF i > Len(itemsToProcess) THEN both
    ELSE LET item == transformItem(itemsToProcess[i], includeResponseKeys,
                                   excludeResponseKeys, sensitiveResponseFields)
         IN  MapItems(itemsToProcess, i + 1,
                      [processed |-> Append(both.processed, item.processed),
                       original |-> Append(both.original, item.original)])

\* lines 325-371: processData()
ProcessData ==
    /\ ppPc = "called"
    /\ IF /\ Len(includeResponseKeys) = 0
          /\ Len(excludeResponseKeys) = 0
          /\ Len(sensitiveResponseFields) = 0
       THEN /\ processedData' = ppData
            /\ ppData' = ppData
       ELSE IF ppData.t = "arr"
            THEN LET both == MapItems(ppData.a, 1, [processed |-> <<>>, original |-> <<>>])
                 IN  /\ processedData' = Arr(both.processed)
                     /\ ppData' = Arr(both.original)
            ELSE LET both == MapItems(<<ppData>>, 1, [processed |-> <<>>, original |-> <<>>])
                 IN  /\ processedData' = both.processed[1]
                     /\ ppData' = both.original[1]
    /\ ppPc' = "processed"
    /\ UNCHANGED <<ppConfig, ppOp, ppOriginal, ppResult, outsidePostProcess>>

\* the mutant: the notice holds the first maxLength characters and no more
TruncationNoticeExact(stringified, maxLength) ==
    Obj(<<<<<<"message">>,
           Str(<<"Response was truncated (length: ", ToString(Len(stringified)),
                 ", max: ", ToString(maxLength), ")">>)>>,
          <<<<"truncatedData">>, Str(SubSeq(stringified, 1, maxLength))>>>>)

\* lines 386-389
TruncationNotice(stringified, maxLength) ==
    Obj(<<<<<<"message">>,
           Str(<<"Response was truncated (length: ", ToString(Len(stringified)),
                 ", max: ", ToString(maxLength), ")">>)>>,
          <<<<"truncatedData">>,
            Str(SubSeq(stringified, 1, maxLength) \o <<".", ".", ".">>)>>>>)

\* lines 376-390
truncateData(data, maxLength) ==
    IF maxLength = Undefined \/ maxLength.n = 0 THEN data
    ELSE LET stringified == JsonPretty(data, 0)
         IN  IF Len(stringified) <= maxLength.n THEN data
             ELSE TruncationNotice(stringified, maxLength.n)

\* lines 372-373
TruncateData ==
    /\ ppPc = "processed"
    /\ ppResult' = truncateData(processedData, ppConfig.maxLength)
    /\ ppPc' = "returned"
    /\ UNCHANGED <<ppConfig, ppOp, ppData, ppOriginal, processedData, outsidePostProcess>>

\* the inputs of the model
MaxPaths == 3
MaxLength == 8

Path_a == <<"a">>
Path_b == <<"b">>
Path_a_b == <<"a", ".", "b">>
Path_d == <<"d">>

Item_flat == Obj(<<<<<<"a">>, Num(1)>>, <<<<"b">>, Num(2)>>, <<<<"c">>, Num(3)>>>>)

Item_nested ==
    Obj(<<<<<<"a">>, Obj(<<<<<<"b">>, Num(1)>>, <<<<"c">>, Num(2)>>>>)>>,
          <<<<"b">>, Num(2)>>>>)

ResponseData ==
    {Item_flat, Item_nested, Arr(<<Item_flat, Item_nested>>), Arr(<<Num(5), Item_nested>>),
     Str(<<"a", "b", "c", "d", "e", "f">>)}

PathLists(n) == UNION {[1..m -> {Path_a, Path_b, Path_a_b, Path_d}] : m \in 0..n}

\* the three lists, of at most MaxPaths paths together
ResponseKeys ==
    UNION {UNION {{[includeResponseKeys |-> Arr(inc), excludeResponseKeys |-> Arr(exc),
                    sensitiveResponseFields |-> Arr(sens)] :
                      sens \in PathLists(MaxPaths - Len(inc) - Len(exc))} :
                  exc \in PathLists(MaxPaths - Len(inc))} :
           inc \in PathLists(MaxPaths)}

NoResponseKeys ==
    [includeResponseKeys |-> Undefined, excludeResponseKeys |-> Undefined,
     sensitiveResponseFields |-> Undefined]

EmptyResponseKeys ==
    [includeResponseKeys |-> Arr(<<>>), excludeResponseKeys |-> Arr(<<>>),
     sensitiveResponseFields |-> Arr(<<>>)]

WithMaxLength(keys, maxLength) ==
    [includeResponseKeys |-> keys.includeResponseKeys,
     excludeResponseKeys |-> keys.excludeResponseKeys,
     sensitiveResponseFields |-> keys.sensitiveResponseFields,
     maxLength |-> maxLength]

\* the lists on the operation under each maximum, in the global configuration
\* under one, and in the global configuration behind empty lists on the
\* operation
ResponseConfigs ==
    {[op |-> keys, config |-> WithMaxLength(NoResponseKeys, maxLength)] :
        keys \in ResponseKeys, maxLength \in {Undefined, Num(0), Num(MaxLength)}}
    \cup {[op |-> NoResponseKeys, config |-> WithMaxLength(keys, Num(MaxLength))] :
            keys \in ResponseKeys}
    \cup {[op |-> EmptyResponseKeys, config |-> WithMaxLength(keys, Undefined)] :
            keys \in ResponseKeys}

PostProcessInit ==
    /\ \E configured \in ResponseConfigs :
          /\ ppConfig = configured.config
          /\ ppOp = configured.op
    /\ ppData \in ResponseData
    /\ ppOriginal = ppData
    /\ processedData = None
    /\ ppResult = None
    /\ ppPc = "called"
    /\ processEnv = EmptyEnv
    /\ ResolveIdle
    /\ InvokeIdle
    /\ TranslateIdle
    /\ FilterIdle
    /\ TemplateIdle
    /\ ExecuteIdle

PostProcessNext ==
    \/ ProcessData
    \/ TruncateData

SpecPostProcess == PostProcessInit /\ [][PostProcessNext]_vars

\* --------------------------------------------- claims on the item transform
\* the pairs of a response item as it was given and as it was processed
ItemPairs ==
    IF ppOriginal.t = "arr"
    THEN {[src |-> ppOriginal.a[i], res |-> processedData.a[i]] :
              i \in DOMAIN ppOriginal.a \cap DOMAIN processedData.a}
    ELSE {[src |-> ppOriginal, res |-> processedData]}

ListedPaths(list) == {Split(list[i], ".") : i \in DOMAIN list}

IsPrefix(p, q) == Len(p) <= Len(q) /\ SubSeq(q, 1, Len(p)) = p

\* the paths of an item that hold a value which is no object with properties
RECURSIVE LeafPaths(_)
LeafPaths(value) ==
    IF value.t = "obj" /\ value.o # <<>>
    THEN UNION {{<<k>> \o l : l \in LeafPaths(Get(value.o, k))} : k \in Keys(value.o)}
    ELSE {<<>>}

\* a path that exists in the item once include and exclude have been applied
ExistsAfterExclude(src, p) ==
    /\ HasPath(src, p, 1)
    /\ \/ includeResponseKeys = <<>>
       \/ \E q \in ListedPaths(includeResponseKeys) :
             HasPath(src, q, 1) /\ (IsPrefix(q, p) \/ IsPrefix(p, q))
    /\ \A e \in ListedPaths(excludeResponseKeys) : ~IsPrefix(e, p)

\* what C16 says of exclude, of absent paths, of include, of the other
\* values and of a top-level array
ItemsKeepShape ==
    /\ ppOriginal.t = "arr" =>
          /\ processedData.t = "arr"
          /\ Len(processedData.a) = Len(ppOriginal.a)
    /\ \A pair \in ItemPairs :
          IF pair.src.t # "obj" THEN pair.res = pair.src
          ELSE /\ \A e \in ListedPaths(excludeResponseKeys) : ~HasPath(pair.res, e, 1)
               /\ \A p \in ListedPaths(excludeResponseKeys)
                             \cup ListedPaths(sensitiveResponseFields) :
                     ~HasPath(pair.src, p, 1) => ~HasPath(pair.res, p, 1)
               /\ includeResponseKeys # <<>> =>
                     \A l \in LeafPaths(pair.res) :
                         l # <<>> =>
                             \E q \in ListedPaths(includeResponseKeys) :
                                 HasPath(pair.src, q, 1) /\ (IsPrefix(q, l) \/ IsPrefix(l, q))
               /\ \A l \in LeafPaths(pair.res) :
                     (/\ l \notin ListedPaths(sensitiveResponseFields)
                      /\ GetPath(pair.res, l, 1).t # "obj") =>
                         GetPath(pair.res, l, 1) = GetPath(pair.src, l, 1)

Serialized == JsonPretty(processedData, 0)

MessageOf(length, max) ==
    Str(<<"Response was truncated (length: ", ToString(length), ", max: ",
          ToString(max), ")">>)

\* the notice with a given truncated string
IsNotice(value, truncated) ==
    value = Obj(<<<<<<"message">>, MessageOf(Len(Serialized), ppConfig.maxLength.n)>>,
                  <<<<"truncatedData">>, Str(truncated)>>>>)

\* C17 as stated: with a maximum M configured and a serialized length
\* L > M the result is the notice whose truncated string is the first M
\* characters; otherwise the processed data is returned unchanged.
C17_Original ==
    ppPc = "returned" =>
        IF ppConfig.maxLength # Undefined /\ Len(Serialized) > ppConfig.maxLength.n
        THEN IsNotice(ppResult, SubSeq(Serialized, 1, ppConfig.maxLength.n))
        ELSE ppResult = processedData

\* C17: with a maximum M other than 0 configured and a serialized length
\* L > M, postProcess returns the notice whose message reports L and M and
\* whose truncated string is the first M characters of the serialized
\* result followed by "..."; with L <= M, with no maximum or with a maximum
\* of 0 it returns the processed data unchanged, whether or not an include,
\* exclude or sensitive rule is configured.
C17_PrefixAndEllipsis ==
    ppPc = "returned" =>
        IF /\ ppConfig.maxLength # Undefined
           /\ ppConfig.maxLength.n # 0
           /\ Len(Serialized) > ppConfig.maxLength.n
        THEN IsNotice(ppResult,
                      SubSeq(Serialized, 1, ppConfig.maxLength.n) \o <<".", ".", ".">>)
        ELSE ppResult = processedData

\* no rule is configured and the serialized data is longer than the maximum:
\* the notice is returned
C17_Witness ==
    /\ ppPc = "returned"
    /\ includeResponseKeys = <<>>
    /\ excludeResponseKeys = <<>>
    /\ sensitiveResponseFields = <<>>
    /\ ppConfig.maxLength = Num(MaxLength)
    /\ processedData = Item_flat
    /\ Len(Serialized) > MaxLength
    /\ ppResult # processedData
    /\ Len(Get(ppResult.o, <<"truncatedData">>).s) = MaxLength + 3

\* ---------------------------------------- claims on incomplete credentials
IncompleteCredentials ==
    /\ spec.tencentCloudAuthScheme
    /\ spec.requestConfig.auth # Undefined
    /\ \/ spec.requestConfig.auth.secretId = <<>>
       \/ spec.requestConfig.auth.secretKey = <<>>

\* C18 as stated: an invocation that is to be signed with credentials whose
\* secret id or secret key is empty ends in an error before any call of
\* fetch, and no request with an Authorization header is built.
C18_Original ==
    (pc \notin {"idle", "start"} /\ IncompleteCredentials) =>
        /\ pc = "thrown"
        /\ fetchLog = <<>>
        /\ RequestBuilt => ~Has(requestOptions.headers, K_Authorization)

\* --------------------------------------------- claims on the path parameters
\* how often an element occurs in a sequence
Occurrences(list, x) == Cardinality({k \in DOMAIN list : list[k] = x})

FirstIndex(list, x) == CHOOSE k \in DOMAIN list : list[k] = x /\ \A l \in 1..(k - 1) : list[l] # x

\* C19 as stated: in every tool, pathParams.required holds the placeholder
\* names of the tool's path template, each once and in the order of the
\* template, each of them is a string property of pathParams, and the
\* top-level required holds "pathParams" once when the template has a
\* placeholder and not at all when it has none.
C19_Original ==
    \A i \in DOMAIN tools :
        LET names == extractPathParameters(tools[i].path)
            required == tools[i].inputSchema.properties.pathParams.required
            properties == tools[i].inputSchema.properties.pathParams.properties
            top == IF tools[i].inputSchema.required = Undefined THEN <<>>
                   ELSE tools[i].inputSchema.required.a
        IN  /\ {required[k] : k \in DOMAIN required} = {names[k] : k \in DOMAIN names}
            /\ \A k \in DOMAIN required : Occurrences(required, required[k]) = 1
            /\ \A k, l \in DOMAIN required :
                  k < l => FirstIndex(names, required[k]) < FirstIndex(names, required[l])
            /\ \A k \in DOMAIN names :
                  /\ Has(properties, names[k])
                  /\ Get(properties, names[k]).type = "string"
            /\ Occurrences(top, "pathParams") = IF names = <<>> THEN 0 ELSE 1

\* ======================================= the template replacement on its own
\* script-executor.ts, processTemplateVariables called directly

\* lines 84-93
ApplyTemplate ==
    /\ tvPc = "called"
    /\ tvResult' = processTemplateVariables(tvValue, tvEnv)
    /\ tvPc' = "returned"
    /\ UNCHANGED <<tvValue, tvEnv, outsideTemplate>>

\* the inputs of the model
MaxTemplate == 4

\* the strings of at most n of these characters
TemplateStrings(n) == UNION {[1..m -> {"{", "}", "A", "B", "1"}] : m \in 0..n}

\* the environments that set some of the names, each to one of the values
EnvsOver(names, values) == UNION {[chosen -> values] : chosen \in SUBSET names}

TemplateInit ==
    /\ tvValue \in TemplateStrings(MaxTemplate) \cup {<<"{", "A", "}", "-", "{", "B", "}">>}
    /\ tvEnv \in EnvsOver({<<"A">>, <<"B">>}, {<<>>, <<"1">>})
    /\ processEnv \in EnvsOver({<<"B">>}, {<<>>, <<"2">>})
    /\ tvResult = <<>>
    /\ tvPc = "called"
    /\ ResolveIdle
    /\ InvokeIdle
    /\ TranslateIdle
    /\ FilterIdle
    /\ PostProcessIdle
    /\ ExecuteIdle

TemplateNext == ApplyTemplate

SpecTemplate == TemplateInit /\ [][TemplateNext]_vars

\* ------------------------------------------ claims on the template variables
\* what C20 puts in the place of {name}: the process environment variable
\* if it is set, otherwise the value of env, otherwise the empty string
ReplacementOf(name) ==
    IF EnvHas(processEnv, name) THEN processEnv[name]
    ELSE IF EnvHas(tvEnv, name) THEN tvEnv[name]
    ELSE <<>>

\* the identifiers in braces of a string: <<i, j>> with "{" at i, "}" at j
\* and an identifier between them
Placeholders(value) ==
    {pair \in (DOMAIN value) \X (DOMAIN value) :
        /\ pair[1] + 1 < pair[2]
        /\ value[pair[1]] = "{"
        /\ value[pair[2]] = "}"
        /\ IsIdStart(value[pair[1] + 1])
        /\ \A k \in (pair[1] + 2)..(pair[2] - 1) : IsIdChar(value[k])}

\* the string with every placeholder from index i on replaced
RECURSIVE ReplacedFrom(_, _)
ReplacedFrom(value, i) ==
    IF i > Len(value) THEN <<>>
    ELSE IF \E pair \in Placeholders(value) : pair[1] = i
         THEN LET pair == CHOOSE q \in Placeholders(value) : q[1] = i
              IN  ReplacementOf(SubSeq(value, i + 1, pair[2] - 1))
                      \o ReplacedFrom(value, pair[2] + 1)
         ELSE <<value[i]>> \o ReplacedFrom(value, i + 1)

\* C20 as stated: processTemplateVariables returns the string in which each
\* {IDENTIFIER} is replaced by the process environment variable of that
\* name if it is set, otherwise by env's value, otherwise by nothing, every
\* other character is kept, and a string without a placeholder is returned
\* as it is.
C20_Original ==
    tvPc = "returned" =>
        /\ tvResult = ReplacedFrom(tvValue, 1)
        /\ Placeholders(tvValue) = {} => tvResult = tvValue

\* ------------------------------------------- claims on the rule predicate
\* the predicate as C26 states it: every field present in the rule holds for
\* the operation, and an operation that lacks the attribute fails the field
HoldsEveryField(rule, entry) ==
    /\ rule.pathPattern # <<>> => RegExpTest(rule.pathPattern, entry.path)
    /\ rule.methodPattern # <<>> => RegExpTest(rule.methodPattern, entry.method)
    /\ rule.operationIdPattern # <<>> =>
          /\ entry.operation.operationId # <<>>
          /\ RegExpTest(rule.operationIdPattern, entry.operation.operationId)
    /\ rule.tags # Undefined =>
          /\ entry.operation.tags # Undefined
          /\ \E i \in DOMAIN rule.tags.a :
                \E j \in DOMAIN entry.operation.tags.a :
                    entry.operation.tags.a[j] = rule.tags.a[i]

\* C26 as stated: when filterSpec has returned for a document with rules, an
\* operation is in the result exactly when the first rule all of whose
\* present fields hold for it exists and is no exclude rule; a rule with an
\* operationIdPattern or with tags does not match an operation that has no
\* operationId or no tags.
C26_Original ==
    (fsPc = "returned" /\ ~NoFilterRules(fsOriginal)) =>
        \A entry \in OperationsOf(fsOriginal.operations) :
            LET holding == {k \in DOMAIN fsOriginal.filterRules.a :
                               HoldsEveryField(fsOriginal.filterRules.a[k], entry)}
            IN  (entry \in OperationsOf(fsSpec.operations))
                    <=> \E k \in holding :
                            /\ \A l \in holding : k <= l
                            /\ ~fsOriginal.filterRules.a[k].exclude

\* ------------------------------------- claims on the document given to filterSpec
\* C27 as stated: when filterSpec has returned for a document with rules,
\* the document it was given still holds every path and operation it held
\* at the call.
C27_Original ==
    (fsPc = "returned" /\ ~NoFilterRules(fsOriginal)) =>
        fsSpec.operations = fsOriginal.operations

\* ------------------------------------- claims on the data given to postProcess
\* C30 as stated: once postProcess has processed the data, the data it was
\* given is as it was at the call.
C30_Original ==
    ppPc \in {"processed", "returned"} => ppData = ppOriginal

\* ------------------------------- claims on what invoke leaves as it was given
\* C21 as stated: no step of an invocation changes the specification
\* document; x-request-config, auth.TencentCloudAuth included, stays as it
\* was loaded.
C21_Original == [][spec' = spec]_vars

\* C28 as stated: when invoke has returned or thrown, the params object of
\* the caller holds what it held at the call.
C28_Original ==
    pc \in {"returned", "thrown"} => params = suppliedParams

\* ------------------------------------------- claims on the remapped path
\* the segments of the filled path
FilledSegments ==
    Tail(Split(FillTemplate(extendTool.path,
                            IF suppliedParams.pathParams = Undefined THEN <<>>
                            ELSE suppliedParams.pathParams.o), "/"))

\* the path of the URL of the target API as it is sent
RECURSIVE UpToQuery(_, _)
UpToQuery(text, i) ==
    IF i > Len(text) \/ text[i] = "?" THEN <<>>
    ELSE <<text[i]>> \o UpToQuery(text, i + 1)

TargetPath == UpToQuery(TargetUrlText, 2)

SentHeader(key) ==
    IF Has(requestOptions.headers, key) THEN Get(requestOptions.headers, key)
    ELSE IF Has(requestOptions.headers, FormatKey(key))
         THEN Get(requestOptions.headers, FormatKey(key))
         ELSE <<>>

\* C22 as stated: with a remap list of n header names the first n segments
\* of the filled path are the values of those headers, in declared order,
\* and the URL path is made of the remaining segments; without a remap list
\* the URL path is the filled path.
C22_Original ==
    RequestBuilt =>
        LET remap == extendTool.rawOperation.remapPathToHeader
        IN  IF remap = Undefined
            THEN TargetPath = PercentEncode(Join(<<<<>>>> \o FilledSegments, <<"/">>, 1))
            ELSE /\ \A i \in DOMAIN remap.a \cap DOMAIN FilledSegments :
                       SentHeader(remap.a[i]) = FilledSegments[i]
                 /\ TargetPath =
                        <<"/">> \o PercentEncode(
                            Join(SubSeq(FilledSegments, Len(remap.a) + 1, Len(FilledSegments)),
                                 <<"/">>, 1))

\* ------------------------------------- claims on the Authorization header
Signing == spec.tencentCloudAuthScheme /\ spec.requestConfig.auth # Undefined

\* C29 as stated: the headers of a signed request hold, under
\* Authorization, the value computed by the signer, which begins with
\* "TC3-HMAC-SHA256 Credential=", whatever headers went in.
C29_Original ==
    (RequestBuilt /\ Signing) =>
        /\ Has(requestOptions.headers, K_Authorization)
        /\ Head(Get(requestOptions.headers, K_Authorization)) = "TC3-HMAC-SHA256 Credential="

\* ------------------------------------------------- claims on the backoff
\* C23: the calls of fetch of one invocation follow one another: call
\* number i + 1 (i counted from 1) is made only when call i has failed and
\* at least 2^(i-1) seconds have passed since that failure, so no two calls
\* are in flight together and the waits are 1, 2, 4, ... seconds; this
\* holds for the calls that have settled and for the one in flight.
C23_SequentialBackoff ==
    /\ \A i \in DOMAIN fetchLog :
          /\ fetchLog[i].start <= fetchLog[i].end
          /\ i < Len(fetchLog) =>
                /\ fetchLog[i].t = "error"
                /\ fetchLog[i + 1].start >= fetchLog[i].end + 2 ^ (i - 1)
    /\ (pc = "fetching" /\ fetchLog # <<>>) =>
          /\ LastOf(fetchLog).t = "error"
          /\ attemptStart >= LastOf(fetchLog).end + 2 ^ (Len(fetchLog) - 1)
    /\ pc = "fetching" => attempt = Len(fetchLog)

\* three calls, the second one second after the first failure and the third
\* two seconds after the second failure
C23_Witness ==
    /\ Len(fetchLog) = 3
    /\ fetchLog[2].start = fetchLog[1].end + 1
    /\ fetchLog[3].start = fetchLog[2].end + 2

\* ------------------------------------- claims on the siblings of an object
\* the env C24 gives to property j of an object: the env of the call and,
\* under the key of every earlier sibling that resolved to a string, the
\* resolved value of the latest such sibling
SiblingEnv(source, resolved, j) ==
    LET earlier(key) == {l \in 1..(j - 1) : source[l][1] = key /\ resolved[l][2].t = "str"}
        names == {source[l][1] : l \in {m \in 1..(j - 1) : resolved[m][2].t = "str"}}
    IN  [n \in DOMAIN ParamsEnv \cup names |->
            IF n \in names
            THEN resolved[CHOOSE l \in earlier(n) : \A m \in earlier(n) : m <= l][2].s
            ELSE ParamsEnv[n]]

\* C24 as stated: when the values are resolved, every template among the
\* properties of an object of inputParams is resolved with the env that
\* holds the resolved values of its earlier siblings, and every template
\* among the elements of an array with the env of the call alone.
C24_Original ==
    rvStatus = "resolved" =>
        \A i \in DOMAIN inputParams :
            LET source == inputParams[i][2]
                resolved == processedInputParams[i][2]
            IN  /\ source.t = "obj" =>
                      \A j \in DOMAIN source.o :
                          (source.o[j][2].t = "str" /\ ~isScript(source.o[j][2].s)) =>
                              resolved.o[j][2] =
                                  Str(processTemplateVariables(
                                          source.o[j][2].s,
                                          SiblingEnv(source.o, resolved.o, j)))
                /\ source.t = "arr" =>
                      \A j \in DOMAIN source.a :
                          (source.a[j].t = "str" /\ ~isScript(source.a[j].s)) =>
                              resolved.a[j] =
                                  Str(processTemplateVariables(source.a[j].s, ParamsEnv))

\* ============================================== the script run on its own
\* script-executor.ts, executeScript called directly, with the temporary
\* file it writes, runs and removes

\* the messages of the errors the file system and spawn reject with
FileErrors == {"ENOENT", "EACCES"}

\* what the child may have written to its stderr
StderrTexts == {"", "boom"}

\* line 27: fs.writeFile(tempFile, script, { mode: 0o755 }) creates the file;
\* when it rejects, the file was not opened or was opened and not written,
\* and the catch of line 64 wraps the error
WriteScriptFile ==
    /\ esPc = "called"
    /\ \/ /\ tempFileExists' = TRUE
          /\ esWritten' = TRUE
          /\ esPc' = "written"
          /\ UNCHANGED esThrown
       \/ \E message \in FileErrors, opened \in BOOLEAN :
              /\ tempFileExists' = opened
              /\ esThrown' = <<"Failed to execute script: ", message>>
              /\ esPc' = "thrown"
              /\ UNCHANGED esWritten
    /\ UNCHANGED <<esScript, esEnv, esUnlink, esResult, esReturn, outsideExecute>>

\* lines 30-50: the child is spawned from the file with { ...process.env,
\* ...env }; its 'close' resolves the promise with the exit code and what
\* it wrote, its 'error' (the file cannot be run) rejects the promise, and
\* the rejection leaves the try block for the catch of line 64
SpawnScript ==
    /\ esPc = "written"
    /\ \/ \E stderr \in StderrTexts :
              LET child == ChildRun(esScript, EnvMerge(processEnv, esEnv))
              IN  /\ esResult' = [code |-> child.code, stdout |-> child.stdout,
                                  stderr |-> stderr]
                  /\ esPc' = "closed"
                  /\ UNCHANGED esThrown
       \/ \E message \in FileErrors :
              /\ esThrown' = <<"Failed to execute script: ", message>>
              /\ esPc' = "thrown"
              /\ UNCHANGED esResult
    /\ UNCHANGED <<esScript, esEnv, tempFileExists, esWritten, esUnlink, esReturn,
                   outsideExecute>>

\* lines 53-57: fs.unlink(tempFile), its rejection ignored
UnlinkScriptFile ==
    /\ esPc = "closed"
    /\ \E removed \in BOOLEAN :
          /\ esUnlink' = IF removed THEN "ok" ELSE "failed"
          /\ tempFileExists' = ~removed
    /\ esPc' = "cleaned"
    /\ UNCHANGED <<esScript, esEnv, esWritten, esResult, esReturn, esThrown, outsideExecute>>

\* lines 59-68: a non-zero exit code throws, and the catch wraps the
\* message; otherwise the captured stdout is returned
SettleScript ==
    /\ esPc = "cleaned"
    /\ IF esResult.code # 0
       THEN /\ esThrown' = <<"Failed to execute script: ", "Script execution failed: ",
                             esResult.stderr>>
            /\ esPc' = "thrown"
            /\ UNCHANGED esReturn
       ELSE /\ esReturn' = esResult.stdout
            /\ esPc' = "returned"
            /\ UNCHANGED esThrown
    /\ UNCHANGED <<esScript, esEnv, tempFileExists, esWritten, esUnlink, esResult,
                   outsideExecute>>

\* the inputs of the model: scripts that print two characters at most, one
\* that prints a header's value and one that exits with 1
ExecuteScripts ==
    {<<"#", "!">> \o text : text \in TemplateStrings(2)} \cup {Script_xa, Script_fail}

ExecuteInit ==
    /\ esScript \in ExecuteScripts
    /\ esEnv \in EnvsOver({<<"A">>, <<"B">>}, {<<"1">>})
    /\ processEnv \in EnvsOver({<<"B">>}, {<<"2">>})
    /\ esPc = "called"
    /\ tempFileExists = FALSE
    /\ esWritten = FALSE
    /\ esUnlink = "none"
    /\ esResult = Undefined
    /\ esReturn = <<>>
    /\ esThrown = <<>>
    /\ ResolveIdle
    /\ InvokeIdle
    /\ TranslateIdle
    /\ FilterIdle
    /\ PostProcessIdle
    /\ TemplateIdle

ExecuteNext ==
    \/ WriteScriptFile
    \/ SpawnScript
    \/ UnlinkScriptFile
    \/ SettleScript

SpecExecute == ExecuteInit /\ [][ExecuteNext]_vars

\* ------------------------------------------ claims on the temporary file
\* C25 as stated: once executeScript has written its temporary file, by the
\* time it returns or throws a removal of the file has been attempted, the
\* file is gone when the removal succeeded, and what is returned or thrown
\* is what the child's exit code and output alone decide.
C25_Original ==
    (esPc \in {"returned", "thrown"} /\ esWritten) =>
        /\ esUnlink # "none"
        /\ esUnlink = "ok" => ~tempFileExists
        /\ esResult # Undefined
        /\ esPc = "returned" <=> esResult.code = 0
        /\ esPc = "returned" => esReturn = esResult.stdout
        /\ esPc = "thrown" =>
              esThrown = <<"Failed to execute script: ", "Script execution failed: ",
                           esResult.stderr>>

====
